---- MODULE Spec2Model ----
(***************************************************************************)
(* A model of lib/netdev-rte-offloads.c: the hardware flow-offload         *)
(* translation and bookkeeping layer (port registry, flow identity         *)
(* registry, outer-id and table-id pools, miss-context store, pattern and  *)
(* action compiler, flow lifecycle orchestrator).                          *)
(*                                                                         *)
(* Multi-byte header fields are kept as host-order numbers: htons/ntohs    *)
(* pairs of the source cancel, and the two places where the source         *)
(* re-slices a converted value (tcp_flags, icmp type/code) are modelled    *)
(* by the arithmetic they perform.                                         *)
(***************************************************************************)
EXTENDS Integers, Sequences, FiniteSets, TLC

(***************************************************************************)
(* Program constants.                                                      *)
(***************************************************************************)
IPPROTO_ICMP == 1
IPPROTO_TCP == 6
IPPROTO_UDP == 17
IPPROTO_SCTP == 132
ETH_TYPE_IP == 2048
OVS_BE16_MAX == 65535
VLAN_CFI == 4096
UINT8_MOD == 256

(* enum table_ids *)
UNKNOWN_TABLE_ID == 0
ROOT_TABLE_ID == 1
VXLAN_TABLE_ID == 2

RTE_FLOW_MAX_TABLES == 31
INVALID_ODP_PORT == -1

(***************************************************************************)
(* Bit arithmetic on unsigned values.                                      *)
(***************************************************************************)
RECURSIVE BitAnd(_, _)
BitAnd(a, b) ==
    IF a = 0 \/ b = 0 THEN 0
    ELSE (a % 2) * (b % 2) + 2 * BitAnd(a \div 2, b \div 2)

(* a & ~b on 16-bit values *)
BitClear16(a, b) == a - BitAnd(a, b)

(***************************************************************************)
(* struct match: the fields of match->flow and match->wc.masks that the    *)
(* offload layer reads.  ZeroFlow is the all-zero struct flow.             *)
(***************************************************************************)
ZeroTunnel ==
    [ip_src |-> 0, ip_dst |-> 0, tun_id |-> 0, ip_tos |-> 0, ip_ttl |-> 0,
     tp_src |-> 0, tp_dst |-> 0, flags |-> 0]

ZeroFlow ==
    [in_port |-> 0, recirc_id |-> 0, tunnel |-> ZeroTunnel,
     dl_src |-> 0, dl_dst |-> 0, dl_type |-> 0, vlan_tci |-> 0,
     nw_src |-> 0, nw_dst |-> 0, nw_proto |-> 0, nw_tos |-> 0, nw_ttl |-> 0,
     nw_frag |-> 0, tp_src |-> 0, tp_dst |-> 0, tcp_flags |-> 0,
     metadata |-> 0, skb_priority |-> 0, pkt_mark |-> 0, dp_hash |-> 0,
     ct_state |-> 0, ct_nw_proto |-> 0, ct_zone |-> 0, ct_mark |-> 0,
     ct_label |-> 0, conj_id |-> 0, actset_output |-> 0, mpls_lse |-> 0,
     ipv6_label |-> 0, ct_nw_src |-> 0, ct_nw_dst |-> 0, ipv6_src |-> 0,
     ipv6_dst |-> 0, ct_ipv6_src |-> 0, ct_ipv6_dst |-> 0, nd_target |-> 0,
     nsh |-> 0, arp_sha |-> 0, arp_tha |-> 0, igmp_group_ip4 |-> 0,
     ct_tp_src |-> 0, ct_tp_dst |-> 0]

ZeroMatch == [flow |-> ZeroFlow, masks |-> ZeroFlow]

(***************************************************************************)
(* struct flow_items: the storage the emitted items point into.            *)
(***************************************************************************)
ZeroItems ==
    [eth   |-> [src |-> 0, dst |-> 0, type |-> 0],
     vlan  |-> [tci |-> 0, inner_type |-> 0],
     ipv4  |-> [type_of_service |-> 0, time_to_live |-> 0,
                next_proto_id |-> 0, src_addr |-> 0, dst_addr |-> 0],
     vxlan |-> [flags |-> 0, vni |-> <<0, 0, 0>>],
     tcp   |-> [src_port |-> 0, dst_port |-> 0, data_off |-> 0,
                tcp_flags |-> 0],
     udp   |-> [src_port |-> 0, dst_port |-> 0],
     sctp  |-> [src_port |-> 0, dst_port |-> 0],
     icmp  |-> [icmp_type |-> 0, icmp_code |-> 0]]

(* One rte_flow_item: its type and where its spec and mask pointers lead:  *)
(* "NULL", or a member of the flow_items pair named by `st`.               *)
Item(type, st, member) == [type |-> type, st |-> st, ptr |-> member]

(* a variant of the function below that puts the item in front *)
AddFlowPatternFront(items, type, st, member) ==
    <<Item(type, st, member)>> \o items

(* add_flow_pattern: append one item (the growth of the array, 8 then      *)
(* doubling, does not change its contents).                                *)
add_flow_pattern(items, type, st, member) ==
    Append(items, Item(type, st, member))

(***************************************************************************)
(* add_flow_patterns: translate the (inner) match.  `st` names the         *)
(* flow_items pair the caller passed; `items` is the list built so far.    *)
(* Result: [ret, items, spec, mask].                                       *)
(***************************************************************************)
ResolvedProto(match) ==
    IF match.flow.dl_type = ETH_TYPE_IP
    THEN BitAnd(match.flow.nw_proto, match.masks.nw_proto)
    ELSE 0

(* a variant of the test below that looks at the two port masks only *)
L4UnsupportedPortsOnly(match, proto) ==
    /\ proto # IPPROTO_ICMP
    /\ proto # IPPROTO_UDP
    /\ proto # IPPROTO_SCTP
    /\ proto # IPPROTO_TCP
    /\ \/ match.masks.tp_src # 0
       \/ match.masks.tp_dst # 0

L4Unsupported(match, proto) ==
    /\ proto # IPPROTO_ICMP
    /\ proto # IPPROTO_UDP
    /\ proto # IPPROTO_SCTP
    /\ proto # IPPROTO_TCP
    /\ \/ match.masks.tp_src # 0
       \/ match.masks.tp_dst # 0
       \/ match.masks.tcp_flags # 0

PortMaskPartial(match) ==
    \/ match.masks.tp_src # 0 /\ match.masks.tp_src # OVS_BE16_MAX
    \/ match.masks.tp_dst # 0 /\ match.masks.tp_dst # OVS_BE16_MAX

EthMasked(match) == match.masks.dl_src # 0 \/ match.masks.dl_dst # 0

VlanEmitted(match) == match.masks.vlan_tci # 0 /\ match.flow.vlan_tci # 0

(* a variant of the statement below that leaves the mask as it is *)
KeepNextProto(mask) == mask

(* the L4 cases' last statement: mask->ipv4.hdr.next_proto_id = 0 *)
ClearNextProto(mask) == [mask EXCEPT !.ipv4.next_proto_id = 0]

add_flow_patterns(items0, st, match) ==
    LET f == match.flow
        m == match.masks
        (* Eth *)
        spec1 == IF EthMasked(match)
                 THEN [ZeroItems EXCEPT !.eth = [src |-> f.dl_src,
                                                 dst |-> f.dl_dst,
                                                 type |-> f.dl_type]]
                 ELSE ZeroItems
        mask1 == IF EthMasked(match)
                 THEN [ZeroItems EXCEPT !.eth = [src |-> m.dl_src,
                                                 dst |-> m.dl_dst,
                                                 type |-> m.dl_type]]
                 ELSE ZeroItems
        items1 == IF EthMasked(match)
                  THEN add_flow_pattern(items0, "ETH", st, "eth")
                  ELSE add_flow_pattern(items0, "ETH", "NULL", "NULL")
        (* VLAN *)
        spec2 == IF VlanEmitted(match)
                 THEN [spec1 EXCEPT !.vlan.tci = BitClear16(f.vlan_tci, VLAN_CFI)]
                 ELSE spec1
        mask2 == IF VlanEmitted(match)
                 THEN [mask1 EXCEPT !.vlan.tci = BitClear16(m.vlan_tci, VLAN_CFI),
                                    !.vlan.inner_type = 0]
                 ELSE mask1
        items2 == IF VlanEmitted(match)
                  THEN add_flow_pattern(items1, "VLAN", st, "vlan")
                  ELSE items1
        (* IP v4 *)
        isip == f.dl_type = ETH_TYPE_IP
        spec3 == IF isip
                 THEN [spec2 EXCEPT !.ipv4 = [type_of_service |-> f.nw_tos,
                                              time_to_live |-> f.nw_ttl,
                                              next_proto_id |-> f.nw_proto,
                                              src_addr |-> f.nw_src,
                                              dst_addr |-> f.nw_dst]]
                 ELSE spec2
        mask3 == IF isip
                 THEN [mask2 EXCEPT !.ipv4 = [type_of_service |-> m.nw_tos,
                                              time_to_live |-> m.nw_ttl,
                                              next_proto_id |-> m.nw_proto,
                                              src_addr |-> m.nw_src,
                                              dst_addr |-> m.nw_dst]]
                 ELSE mask2
        items3 == IF isip
                  THEN add_flow_pattern(items2, "IPV4", st, "ipv4")
                  ELSE items2
        proto == IF isip
                 THEN BitAnd(spec3.ipv4.next_proto_id, mask3.ipv4.next_proto_id)
                 ELSE 0
        fail == [ret |-> -1, items |-> items3, spec |-> spec3, mask |-> mask3]
    IN
    IF L4Unsupported(match, proto) THEN fail
    ELSE IF PortMaskPartial(match) THEN fail
    ELSE CASE proto = IPPROTO_TCP ->
              [ret |-> 0,
               items |-> add_flow_pattern(items3, "TCP", st, "tcp"),
               spec |-> [spec3 EXCEPT !.tcp =
                            [src_port |-> f.tp_src, dst_port |-> f.tp_dst,
                             data_off |-> (f.tcp_flags \div UINT8_MOD) % UINT8_MOD,
                             tcp_flags |-> f.tcp_flags % UINT8_MOD]],
               mask |-> ClearNextProto([mask3 EXCEPT !.tcp =
                            [src_port |-> m.tp_src, dst_port |-> m.tp_dst,
                             data_off |-> (m.tcp_flags \div UINT8_MOD) % UINT8_MOD,
                             tcp_flags |-> m.tcp_flags % UINT8_MOD]])]
           [] proto = IPPROTO_UDP ->
              [ret |-> 0,
               items |-> add_flow_pattern(items3, "UDP", st, "udp"),
               spec |-> [spec3 EXCEPT !.udp =
                            [src_port |-> f.tp_src, dst_port |-> f.tp_dst]],
               mask |-> ClearNextProto([mask3 EXCEPT !.udp =
                            [src_port |-> m.tp_src, dst_port |-> m.tp_dst]])]
           [] proto = IPPROTO_SCTP ->
              [ret |-> 0,
               items |-> add_flow_pattern(items3, "SCTP", st, "sctp"),
               spec |-> [spec3 EXCEPT !.sctp =
                            [src_port |-> f.tp_src, dst_port |-> f.tp_dst]],
               mask |-> ClearNextProto([mask3 EXCEPT !.sctp =
                            [src_port |-> m.tp_src, dst_port |-> m.tp_dst]])]
           [] proto = IPPROTO_ICMP ->
              [ret |-> 0,
               items |-> add_flow_pattern(items3, "ICMP", st, "icmp"),
               spec |-> [spec3 EXCEPT !.icmp =
                            [icmp_type |-> f.tp_src % UINT8_MOD,
                             icmp_code |-> f.tp_dst % UINT8_MOD]],
               mask |-> ClearNextProto([mask3 EXCEPT !.icmp =
                            [icmp_type |-> m.tp_src % UINT8_MOD,
                             icmp_code |-> m.tp_dst % UINT8_MOD]])]
           [] OTHER ->
              [ret |-> 0, items |-> items3, spec |-> spec3, mask |-> mask3]

(***************************************************************************)
(* What the driver sees of an item list: each item's type with the spec    *)
(* and mask its pointers lead to at the time of the call.  `store` maps a  *)
(* flow_items pair's name to its [spec, mask].                             *)
(***************************************************************************)
DriverItems(items, store) ==
    [i \in 1..Len(items) |->
        IF items[i].st = "NULL"
        THEN [type |-> items[i].type, spec |-> "NULL", mask |-> "NULL"]
        ELSE [type |-> items[i].type,
              spec |-> store[items[i].st].spec[items[i].ptr],
              mask |-> store[items[i].st].mask[items[i].ptr]]]


(***************************************************************************)
(* State.                                                                  *)
(***************************************************************************)
VARIABLES
    (* pattern compiler under test *)
    cmatch,                 \* the struct match handed to the compiler
    cres,                   \* what the last translation call produced
    (* tunnel outer-id contexts: struct tun_ctx_outer_id *)
    tun_to_outer_id_map,    \* tuple -> outer-id nodes (hold the ref_count)
    outer_id_to_tun_map,    \* outer-id -> tuple nodes
    outer_pool,             \* tun_ctx_outer_id.pool
    (* hardware table ids: struct hw_table_id *)
    recirc_id_to_tbl_id_map,
    port_id_to_tbl_id_map,
    hw_pool,                \* hw_table_id.pool
    (* miss contexts *)
    mark_to_ct_ctx,         \* the file-scope cmap mark_to_ct_ctx
    mpi_mark_to_ct_ctx,     \* mark_preprocess_info.mark_to_ct_ctx
    clast,                  \* the last pool / miss-context call and its result
    (* flow lifecycle *)
    port_map,               \* dp_port -> struct netdev_rte_port
    mark_to_rte_port,       \* the mark_node's linked, by dp_port
    dpdk_phy_ports_amount,
    ufid_to_portid_map,     \* ufid -> dp_port
    rte_flows,              \* the driver: the flows created and not destroyed
    last,                   \* the last lifecycle call, its result and the
                            \* driver calls it made
    ncalls,                 \* the lifecycle calls made so far
    (* one struct ufid_hw_offload taken on its own *)
    ident,
    (* the packet-processing thread *)
    pre_rd,                 \* inside netdev_rte_offload_preprocess
    miss_rd,                \* inside netdev_dpdk_offload_preprocess
    miss_rcu                \* miss contexts handed to ovsrcu_postpone, and
                            \* those freed since

patvars == <<cmatch, cres>>
tunvars == <<tun_to_outer_id_map, outer_id_to_tun_map, outer_pool>>
hwvars == <<recirc_id_to_tbl_id_map, port_id_to_tbl_id_map, hw_pool>>
missvars == <<mark_to_ct_ctx, mpi_mark_to_ct_ctx>>
lifevars == <<port_map, mark_to_rte_port, dpdk_phy_ports_amount,
              ufid_to_portid_map, rte_flows, last, ncalls>>
auxvars == <<ident, pre_rd, miss_rd, miss_rcu>>
vars == <<patvars, tunvars, hwvars, missvars, clast, lifevars, auxvars>>

(***************************************************************************)
(* Bounds of the model.                                                    *)
(***************************************************************************)
MaxTun == 3             \* distinct tunnel ids offered to the outer-id calls
MaxRef == 3             \* references taken on one tunnel tuple
MaxLogicalId == 2       \* recirculation / port ids offered to the table-id calls
MaxMark == 2            \* mark values offered to the miss-context calls
MaxCtx == 3             \* nodes linked into mark_to_ct_ctx

(* The pools' sizes stand for MAX_OUTER_ID (0xffff) and MAX_HW_TABLE       *)
(* (0xff00): small, so that exhaustion is reached.                         *)
MAX_OUTER_ID == 2
MAX_HW_TABLE == 2
OUTER_POOL_BASE == 1
HW_POOL_BASE == 64
(* 0xffffffff as a uint32_t: the all-ones word, written here as the 32-bit *)
(* two's-complement integer with the same bits.                           *)
INVALID_OUTER_ID == -1
INVALID_HW_ID == -1

(***************************************************************************)
(* The record of the last pool / miss-context call: its name, its          *)
(* arguments (tuple t, logical id or mark id, conntrack payload p) and its *)
(* results (ret, and found / ctx for a lookup).                            *)
(***************************************************************************)
NoFlow == "NULL"

ZeroCt == [ct_mark |-> 0, ct_zone |-> 0, ct_state |-> 0, outer_id |-> 0,
           rte_flow |-> <<NoFlow, NoFlow>>]

(* the `flow` member of the node's union *)
ZeroFlowCtx == [outer_id |-> 0, hw_id |-> 0, is_port |-> FALSE, in_port |-> 0]

(* a node as xzalloc returns it; the two members of the union are kept    *)
(* apart: no node is read through the member it was not written through   *)
ZeroMissCtx == [mark |-> 0, type |-> 0, ct |-> ZeroCt, flow |-> ZeroFlowCtx]

NoCall ==
    [op |-> "none", t |-> [ip_dst |-> 0, ip_src |-> 0, tun_id |-> 0],
     id |-> 0,
     p |-> [flow |-> NoFlow, ct_mark |-> 0, ct_zone |-> 0, ct_state |-> 0,
            outer_id |-> 0, reply |-> FALSE],
     ret |-> 0, found |-> FALSE, ctx |-> ZeroMissCtx]

TunCall(op, t, ret) == [NoCall EXCEPT !.op = op, !.t = t, !.ret = ret]

HwCall(op, id, ret) == [NoCall EXCEPT !.op = op, !.id = id, !.ret = ret]

MissCall(op, mark, p, ret, f) ==
    [NoCall EXCEPT !.op = op, !.id = mark, !.p = p, !.ret = ret,
                   !.found = f.found, !.ctx = f.ctx]

(***************************************************************************)
(* id_pool (lib/id-pool.c): ids in [base, base + n_ids).  Which free id an *)
(* allocation hands out is left open.                                      *)
(***************************************************************************)
NoPool == [created |-> FALSE, base |-> 0, n_ids |-> 0, ids |-> {}]

id_pool_create(base, n_ids) ==
    [created |-> TRUE, base |-> base, n_ids |-> n_ids, ids |-> {}]

id_pool_range(pool) == pool.base .. (pool.base + pool.n_ids - 1)

(* the ids id_pool_alloc_id may return; empty: it returns false *)
id_pool_free_ids(pool) == id_pool_range(pool) \ pool.ids

id_pool_take(pool, id) == [pool EXCEPT !.ids = @ \cup {id}]

id_pool_free_id(pool, id) == [pool EXCEPT !.ids = @ \ {id}]

(***************************************************************************)
(* Tunnel outer-id contexts.                                               *)
(***************************************************************************)
TunTuples == [ip_dst : {1}, ip_src : {2}, tun_id : 1..MaxTun]

TunKey(n) == [ip_dst |-> n.ip_dst, ip_src |-> n.ip_src, tun_id |-> n.tun_id]

(* the nodes of tun_to_outer_id_map the loops of get_ref / unref stop at *)
TunNodes(t) == {n \in tun_to_outer_id_map : TunKey(n) = t}

(* netdev_dpdk_tun_data_find *)
netdev_dpdk_tun_data_find(outer_id) ==
    {n \in outer_id_to_tun_map : n.outer_id = outer_id}

(* a variant of netdev_dpdk_tun_data_del that leaves the node linked *)
TunDataDelKeeps(map, outer_id) == map

(* netdev_dpdk_tun_data_del: unlink the outer-id -> tuple node *)
netdev_dpdk_tun_data_del(map, outer_id) ==
    {n \in map : n.outer_id # outer_id}

(* netdev_dpdk_tun_data_insert *)
netdev_dpdk_tun_data_insert(map, outer_id, t) ==
    map \cup {[outer_id |-> outer_id, ip_dst |-> t.ip_dst,
               ip_src |-> t.ip_src, tun_id |-> t.tun_id]}

(* a variant of the test below that releases one reference early *)
TunLastRefEarly(ref_count) == ref_count = 1

(* the test of netdev_dpdk_tun_outer_id_unref that decides the release *)
TunLastRef(ref_count) == ref_count = 0

(* netdev_dpdk_tun_id_get_ref: netdev_dpdk_tun_outer_id_get_ref, and       *)
(* netdev_dpdk_tun_outer_id_alloc when the tuple has no node.              *)
netdev_dpdk_tun_id_get_ref(t) ==
    IF TunNodes(t) # {}
    THEN \E n \in TunNodes(t) :
            /\ n.ref_count < MaxRef
            /\ tun_to_outer_id_map' =
                   (tun_to_outer_id_map \ {n}) \cup
                       {[n EXCEPT !.ref_count = n.ref_count + 1]}
            /\ UNCHANGED <<outer_id_to_tun_map, outer_pool>>
            /\ clast' = TunCall("tun_get_ref", t, n.outer_id)
    ELSE LET pool == IF outer_pool.created THEN outer_pool
                     ELSE id_pool_create(OUTER_POOL_BASE, MAX_OUTER_ID)
         IN
         IF id_pool_free_ids(pool) = {}
         THEN /\ outer_pool' = pool
              /\ UNCHANGED <<tun_to_outer_id_map, outer_id_to_tun_map>>
              /\ clast' = TunCall("tun_get_ref", t, INVALID_OUTER_ID)
         ELSE \E outer_id \in id_pool_free_ids(pool) :
                 /\ outer_pool' = id_pool_take(pool, outer_id)
                 /\ tun_to_outer_id_map' = tun_to_outer_id_map \cup
                        {[ip_dst |-> t.ip_dst, ip_src |-> t.ip_src,
                          tun_id |-> t.tun_id, outer_id |-> outer_id,
                          ref_count |-> 1]}
                 /\ outer_id_to_tun_map' =
                        netdev_dpdk_tun_data_insert(outer_id_to_tun_map,
                                                    outer_id, t)
                 /\ clast' = TunCall("tun_get_ref", t, outer_id)

(* netdev_dpdk_tun_id_unref -> netdev_dpdk_tun_outer_id_unref *)
netdev_dpdk_tun_outer_id_unref(t) ==
    /\ clast' = [TunCall("tun_unref", t, 0) EXCEPT
                     !.found = TunNodes(t) # {}]
    /\ IF TunNodes(t) = {}
       THEN UNCHANGED tunvars
       ELSE \E n \in TunNodes(t) :
               IF TunLastRef(n.ref_count - 1)
               THEN /\ outer_id_to_tun_map' =
                           netdev_dpdk_tun_data_del(outer_id_to_tun_map,
                                                    n.outer_id)
                    /\ tun_to_outer_id_map' = tun_to_outer_id_map \ {n}
                    /\ outer_pool' = id_pool_free_id(outer_pool, n.outer_id)
               ELSE /\ tun_to_outer_id_map' =
                           (tun_to_outer_id_map \ {n}) \cup
                               {[n EXCEPT !.ref_count = n.ref_count - 1]}
                    /\ UNCHANGED <<outer_id_to_tun_map, outer_pool>>

TunGetRef ==
    /\ \E t \in TunTuples : netdev_dpdk_tun_id_get_ref(t)
    /\ UNCHANGED <<patvars, hwvars, missvars, lifevars, auxvars>>

TunUnref ==
    /\ \E t \in TunTuples : netdev_dpdk_tun_outer_id_unref(t)
    /\ UNCHANGED <<patvars, hwvars, missvars, lifevars, auxvars>>


(***************************************************************************)
(* Hardware table ids.  A map is the sequence of its linked nodes          *)
(* [id, hw_id, is_port, ref_cnt, freed]; a lookup stops at any node that   *)
(* matches.                                                                *)
(***************************************************************************)
LogicalIds == 1..MaxLogicalId

HwMap(is_port) ==
    IF is_port THEN port_id_to_tbl_id_map ELSE recirc_id_to_tbl_id_map

HwMatches(map, id, is_port) ==
    {i \in DOMAIN map : map[i].id = id /\ map[i].is_port = is_port}

HwSetMap(is_port, map) ==
    IF is_port
    THEN port_id_to_tbl_id_map' = map /\ UNCHANGED recirc_id_to_tbl_id_map
    ELSE recirc_id_to_tbl_id_map' = map /\ UNCHANGED port_id_to_tbl_id_map

(* netdev_dpdk_hw_id_init *)
netdev_dpdk_hw_id_init ==
    IF hw_pool.created THEN hw_pool
    ELSE id_pool_create(HW_POOL_BASE, MAX_HW_TABLE)

(* netdev_dpdk_get_hw_id's status: 0 when a node matches, -1 otherwise *)
netdev_dpdk_get_hw_id(id, is_port) ==
    IF HwMatches(HwMap(is_port), id, is_port) # {} THEN 0 ELSE -1

(* the test netdev_dpdk_get_recirc_id_hw_id and                            *)
(* netdev_dpdk_get_port_id_hw_id make on that status before returning      *)
(* *hw_id without allocating                                               *)
HwReturnCallerValue(status) == status # 0

(* netdev_dpdk_alloc_hw_id on `map` with pool `pool` *)
netdev_dpdk_alloc_hw_id(op, map, pool, id, is_port) ==
    IF id_pool_free_ids(pool) = {}
    THEN /\ hw_pool' = pool
         /\ HwSetMap(is_port, map)
         /\ clast' = HwCall(op, id, INVALID_HW_ID)
    ELSE \E hw_id \in id_pool_free_ids(pool) :
            /\ hw_pool' = id_pool_take(pool, hw_id)
            /\ HwSetMap(is_port,
                        Append(map, [id |-> id, hw_id |-> hw_id,
                                     is_port |-> is_port, ref_cnt |-> 1,
                                     freed |-> FALSE]))
            /\ clast' = HwCall(op, id, hw_id)

(* netdev_dpdk_get_recirc_id_hw_id / netdev_dpdk_get_port_id_hw_id;        *)
(* hw_in is the caller's *hw_id on entry.                                  *)
netdev_dpdk_get_x_hw_id(op, id, hw_in, is_port) ==
    LET pool == netdev_dpdk_hw_id_init
        map == HwMap(is_port)
        status == netdev_dpdk_get_hw_id(id, is_port)
    IN
    IF status # 0
    THEN (* no node: get_hw_id left *hw_id alone *)
         IF HwReturnCallerValue(status)
         THEN /\ hw_pool' = pool
              /\ UNCHANGED <<recirc_id_to_tbl_id_map, port_id_to_tbl_id_map>>
              /\ clast' = HwCall(op, id, hw_in)
         ELSE netdev_dpdk_alloc_hw_id(op, map, pool, id, is_port)
    ELSE (* a node matched: get_hw_id took a reference and set *hw_id *)
         \E i \in HwMatches(map, id, is_port) :
            /\ map[i].ref_cnt < MaxRef
            /\ LET map1 == [map EXCEPT ![i].ref_cnt = @ + 1]
               IN IF HwReturnCallerValue(status)
                  THEN /\ hw_pool' = pool
                       /\ HwSetMap(is_port, map1)
                       /\ clast' = HwCall(op, id, map[i].hw_id)
                  ELSE netdev_dpdk_alloc_hw_id(op, map1, pool, id, is_port)

(* netdev_dpdk_put_hw_id: at zero the id goes back to the pool and the     *)
(* node is handed to ovsrcu_postpone(free) while still linked.             *)
netdev_dpdk_put_hw_id(op, id, is_port) ==
    LET map == HwMap(is_port)
    IN
    /\ clast' = HwCall(op, id, 0)
    /\ IF HwMatches(map, id, is_port) = {}
       THEN UNCHANGED hwvars
       ELSE \E i \in HwMatches(map, id, is_port) :
               /\ map[i].ref_cnt >= 0     \* the count is followed down to -1
               /\ IF map[i].ref_cnt - 1 = 0
                  THEN /\ hw_pool' = id_pool_free_id(hw_pool, map[i].hw_id)
                       /\ HwSetMap(is_port, [map EXCEPT ![i].ref_cnt = 0,
                                                        ![i].freed = TRUE])
                  ELSE /\ hw_pool' = hw_pool
                       /\ HwSetMap(is_port,
                                   [map EXCEPT ![i].ref_cnt = @ - 1])

(* the value the callers leave in *hw_id before the call: the zeroed       *)
(* cls_info of netdev_dpdk_offload_put_handle                              *)
CallerHwId == 0

HwGetRecirc ==
    /\ \E id \in LogicalIds :
          netdev_dpdk_get_x_hw_id("get_recirc_id_hw_id", id, CallerHwId, FALSE)
    /\ UNCHANGED <<patvars, tunvars, missvars, lifevars, auxvars>>

HwGetPort ==
    /\ \E id \in LogicalIds :
          netdev_dpdk_get_x_hw_id("get_port_id_hw_id", id, CallerHwId, TRUE)
    /\ UNCHANGED <<patvars, tunvars, missvars, lifevars, auxvars>>

HwPutRecirc ==
    /\ \E id \in LogicalIds :
          netdev_dpdk_put_hw_id("put_recirc_id_hw_id", id, FALSE)
    /\ UNCHANGED <<patvars, tunvars, missvars, lifevars, auxvars>>

HwPutPort ==
    /\ \E id \in LogicalIds :
          netdev_dpdk_put_hw_id("put_port_id_hw_id", id, TRUE)
    /\ UNCHANGED <<patvars, tunvars, missvars, lifevars, auxvars>>


(***************************************************************************)
(* Miss contexts: struct mark_to_miss_ctx_data.  A map is the sequence of  *)
(* its linked nodes.                                                       *)
(***************************************************************************)
MARK_PREPROCESS_CT == 1
MARK_PREPROCESS_FLOW_CT == 2
MARK_PREPROCESS_FLOW == 4

Marks == 1..MaxMark

(* what the callers of netdev_dpdk_save_ct_miss_ctx pass *)
CtPayloads ==
    [flow : {"ctflow"}, ct_mark : {9}, ct_zone : {0, 3}, ct_state : {1},
     outer_id : {300}, reply : BOOLEAN]

(* the map netdev_dpdk_find_miss_ctx and netdev_dpdk_del_miss_ctx walk *)
MissLookupMap == mpi_mark_to_ct_ctx

MissMatches(map, mark) == {i \in DOMAIN map : map[i].mark = mark}

(* netdev_dpdk_find_miss_ctx: [found, ctx] for each node it may stop at *)
netdev_dpdk_find_miss_ctx(mark) ==
    IF MissMatches(MissLookupMap, mark) = {}
    THEN {[found |-> FALSE, ctx |-> ZeroMissCtx]}
    ELSE {[found |-> TRUE, ctx |-> MissLookupMap[i]] :
             i \in MissMatches(MissLookupMap, mark)}

RemoveAt(seq, i) == SubSeq(seq, 1, i - 1) \o SubSeq(seq, i + 1, Len(seq))

(* the uint8_t outer_id parameter of netdev_dpdk_save_ct_miss_ctx *)
SaveCtOuterIdParam(outer_id) == outer_id % UINT8_MOD

CtDirIdx(reply) == IF reply THEN 2 ELSE 1

(* the fields netdev_dpdk_save_ct_miss_ctx stores into `data` *)
SaveCtFill(data, mark, p) ==
    LET d1 == [data EXCEPT !.type = MARK_PREPROCESS_CT,
                           !.mark = mark,
                           !.ct.ct_mark = p.ct_mark,
                           !.ct.ct_zone = p.ct_zone,
                           !.ct.ct_state = p.ct_state,
                           !.ct.outer_id = SaveCtOuterIdParam(p.outer_id)]
    IN IF d1.ct.rte_flow[CtDirIdx(p.reply)] # NoFlow
       THEN [ret |-> -1, data |-> d1]
       ELSE [ret |-> 0,
             data |-> [d1 EXCEPT !.ct.rte_flow[CtDirIdx(p.reply)] = p.flow]]

(* netdev_dpdk_save_ct_miss_ctx, with netdev_dpdk_get_flow_miss_ctx: a     *)
(* node found by the lookup is filled in place, otherwise a zeroed node is *)
(* linked into mark_to_ct_ctx and filled.                                  *)
netdev_dpdk_save_ct_miss_ctx(mark, p) ==
    \E f \in netdev_dpdk_find_miss_ctx(mark) :
        IF f.found
        THEN \E i \in MissMatches(MissLookupMap, mark) :
                LET r == SaveCtFill(MissLookupMap[i], mark, p)
                IN /\ mark_to_ct_ctx' =
                          [j \in DOMAIN mark_to_ct_ctx |->
                              IF mark_to_ct_ctx[j] = MissLookupMap[i]
                              THEN r.data ELSE mark_to_ct_ctx[j]]
                   /\ UNCHANGED mpi_mark_to_ct_ctx
                   /\ clast' = MissCall("save_ct_miss_ctx", mark, p, r.ret, f)
        ELSE LET r == SaveCtFill(ZeroMissCtx, mark, p)
             IN /\ Len(mark_to_ct_ctx) < MaxCtx
                /\ mark_to_ct_ctx' = Append(mark_to_ct_ctx, r.data)
                /\ UNCHANGED mpi_mark_to_ct_ctx
                /\ clast' = MissCall("save_ct_miss_ctx", mark, p, r.ret, f)

(* netdev_dpdk_del_miss_ctx: the node it finds is unlinked from            *)
(* mark_to_ct_ctx and handed to ovsrcu_postpone(free, ...).                *)
netdev_dpdk_del_miss_ctx(mark) ==
    /\ clast' = MissCall("del_miss_ctx", mark, NoCall.p, 0, NoCall)
    /\ UNCHANGED mpi_mark_to_ct_ctx
    /\ IF MissMatches(MissLookupMap, mark) = {}
       THEN UNCHANGED <<mark_to_ct_ctx, miss_rcu>>
       ELSE \E i \in MissMatches(MissLookupMap, mark) :
               LET hit == {j \in DOMAIN mark_to_ct_ctx :
                              mark_to_ct_ctx[j] = MissLookupMap[i]}
               IN /\ miss_rcu' = [miss_rcu EXCEPT
                                     !.postponed = @ \cup {MissLookupMap[i]}]
                  /\ IF hit = {} THEN UNCHANGED mark_to_ct_ctx
                     ELSE \E j \in hit :
                             mark_to_ct_ctx' = RemoveAt(mark_to_ct_ctx, j)

MissSaveCt ==
    /\ \E mark \in Marks, p \in CtPayloads :
          netdev_dpdk_save_ct_miss_ctx(mark, p)
    /\ UNCHANGED <<patvars, tunvars, hwvars, lifevars, auxvars>>

MissFind ==
    /\ \E mark \in Marks : \E f \in netdev_dpdk_find_miss_ctx(mark) :
          clast' = MissCall("find_miss_ctx", mark, NoCall.p, 0, f)
    /\ UNCHANGED <<patvars, tunvars, hwvars, missvars, lifevars, auxvars>>

MissDel ==
    /\ \E mark \in Marks : netdev_dpdk_del_miss_ctx(mark)
    /\ UNCHANGED <<patvars, tunvars, hwvars, lifevars, ident, pre_rd, miss_rd>>

(***************************************************************************)
(* The packet-processing thread in netdev_dpdk_offload_preprocess, one     *)
(* memory access at a time.  miss_rd = [pc, mark, ptr, null, freed]: ptr   *)
(* is the node the cursor of netdev_dpdk_find_miss_ctx loaded, null: the   *)
(* cursor is NULL; freed: the thread has read a node after its free.       *)
(***************************************************************************)
MissRdIdle == [pc |-> "idle", mark |-> 0, ptr |-> ZeroMissCtx,
               null |-> TRUE, freed |-> FALSE]

MissRdKept ==
    UNCHANGED <<patvars, tunvars, hwvars, missvars, clast, lifevars, ident,
                pre_rd>>

(* the cursor of CMAP_FOR_EACH_WITH_HASH is loaded *)
MissRdBegin ==
    /\ miss_rd.pc = "idle"
    /\ \E mark \in Marks : \E f \in netdev_dpdk_find_miss_ctx(mark) :
          miss_rd' = [MissRdIdle EXCEPT !.pc = "walk", !.mark = mark,
                                       !.ptr = f.ctx, !.null = ~f.found]
    /\ UNCHANGED miss_rcu
    /\ MissRdKept

(* data->mark is read and the node returned, then ct_ctx->type and the     *)
(* payload are read                                                        *)
MissRdStep ==
    /\ miss_rd.pc \in {"walk", "found"}
    /\ miss_rd' =
          IF miss_rd.null THEN [miss_rd EXCEPT !.pc = "done"]
          ELSE [miss_rd EXCEPT
                   !.pc = IF miss_rd.pc = "walk" THEN "found" ELSE "done",
                   !.freed = @ \/ miss_rd.ptr \in miss_rcu.freed]
    /\ UNCHANGED miss_rcu
    /\ MissRdKept

(* the thread leaves the packet and quiesces: what was postponed before is *)
(* freed                                                                   *)
MissRdQuiesce ==
    /\ miss_rd.pc = "done" \/ (miss_rd.pc = "idle" /\ miss_rcu.postponed # {})
    /\ miss_rd' = [MissRdIdle EXCEPT !.freed = miss_rd.freed]
    /\ miss_rcu' = [postponed |-> {},
                    freed |-> miss_rcu.freed \cup miss_rcu.postponed]
    /\ MissRdKept


(***************************************************************************)
(* The pattern compiler's entry points, applied to one match.              *)
(***************************************************************************)
(* netdev_rte_offloads_add_flow, pattern part: add_flow_patterns into the  *)
(* local spec/mask pair, then the END item; `items` is what the driver     *)
(* reads through the item pointers when flow_create is called.             *)
PhysPatterns(match) ==
    LET r == add_flow_patterns(<<>>, "inner", match)
        store == [inner |-> [spec |-> r.spec, mask |-> r.mask]]
    IN IF r.ret # 0
       THEN [ret |-> r.ret, items |-> <<>>]
       ELSE [ret |-> 0,
             items |-> DriverItems(
                           add_flow_pattern(r.items, "END", "NULL", "NULL"),
                           store)]

MkMatch(x) ==
    [flow  |-> [ZeroFlow EXCEPT !.dl_type = x.dl_type,
                                !.nw_proto = x.nw_proto,
                                !.nw_tos = 32,
                                !.nw_src = 167772161,
                                !.vlan_tci = x.vlan_tci,
                                !.dl_src = 170,
                                !.tp_src = 4660,
                                !.tp_dst = 53,
                                !.tcp_flags = 530],
     masks |-> [ZeroFlow EXCEPT !.dl_type = OVS_BE16_MAX,
                                !.nw_proto = x.nw_proto_mask,
                                !.nw_tos = x.nw_tos_mask,
                                !.nw_src = x.nw_src_mask,
                                !.vlan_tci = x.vlan_tci_mask,
                                !.dl_src = x.dl_src_mask,
                                !.tp_src = x.tp_src_mask,
                                !.tp_dst = x.tp_dst_mask,
                                !.tcp_flags = x.tcp_flags_mask]]

PatMatches ==
    {MkMatch(x) : x \in
        [dl_type : {ETH_TYPE_IP, 34525},            \* IPv4, IPv6
         nw_proto : {IPPROTO_ICMP, IPPROTO_TCP, IPPROTO_UDP, IPPROTO_SCTP,
                     47},                        \* 47: GRE
         nw_proto_mask : {0, 1, 255},
         nw_tos_mask : {0, 252},
         nw_src_mask : {0, 16777215},
         vlan_tci : {0, 4196},
         vlan_tci_mask : {0, 8191},
         dl_src_mask : {0, 255},
         tp_src_mask : {0, 255, OVS_BE16_MAX},
         tp_dst_mask : {0, OVS_BE16_MAX},
         tcp_flags_mask : {0, 511}]}

PatTranslate ==
    /\ cres.fn = "none"
    /\ cres' = [fn |-> "add_flow_patterns",
                r |-> add_flow_patterns(<<>>, "inner", cmatch)]
    /\ UNCHANGED <<cmatch, tunvars, hwvars, missvars, clast, lifevars, auxvars>>

PatBuild ==
    /\ cres.fn = "none"
    /\ cres' = [fn |-> "add_flow", r |-> PhysPatterns(cmatch)]
    /\ UNCHANGED <<cmatch, tunvars, hwvars, missvars, clast, lifevars, auxvars>>

(***************************************************************************)
(* Flow lifecycle: bounds, constants and inputs.                           *)
(***************************************************************************)
MaxPorts == 3           \* datapath port numbers offered to port_add
MaxUfid == 2            \* flow identifiers offered to flow_put / flow_del
MaxHandles == 5         \* flows the driver can hold at a time
MaxPhyAmount == 3       \* cap on dpdk_phy_ports_amount
MaxMarkNodes == 2       \* cap on the nodes linked into mark_to_rte_port
MaxCalls == 4           \* lifecycle calls in one run

EINVAL == 22
ENODEV == 19
EOPNOTSUPP == 95
CS_ESTABLISHED == 2
(* MIN_RESERVED_MARK + 0; the value stands for the one reserved mark all   *)
(* vxlan ports share.                                                      *)
VXLAN_EXCEPTION_MARK == 1

Ports == 1..MaxPorts
NoSuchPort == MaxPorts + 1      \* a datapath port number never added
Ufids == 1..MaxUfid

(* A struct netdev: the datapath port it was opened for and its type.      *)
Netdev(id, type) == [id |-> id, type |-> type]

(* lib/netdev-dpdk.c: all dpdk devices but the last port's are uplinks *)
netdev_dpdk_is_uplink_port(netdev) ==
    netdev.type = "dpdk" /\ netdev.id < MaxPorts

netdev_dpdk_get_port_id(netdev) == netdev.id

MapPut(f, k, v) == [x \in DOMAIN f \cup {k} |-> IF x = k THEN v ELSE f[x]]

MapDel(f, k) == [x \in DOMAIN f \ {k} |-> f[x]]

EmptyMap == [x \in {} |-> 0]

(* A netlink action attribute. *)
NlAttr(type, port, zone, nested) ==
    [type |-> type, port |-> port, zone |-> zone, nested |-> nested]

NlOutput(p) == NlAttr("OUTPUT", p, 0, <<>>)
NlTunnelPop(p) == NlAttr("TUNNEL_POP", p, 0, <<>>)
NlClone(p) ==
    NlAttr("CLONE", 0, 0,
           <<NlAttr("TUNNEL_PUSH", 0, 0, <<>>), NlOutput(p)>>)
NlCt(zone) == NlAttr("CT", 0, zone, <<>>)
NlRecirc == NlAttr("RECIRC", 0, 0, <<>>)
NlSet == NlAttr("SET", 0, 0, <<>>)

(* the matches offered to flow_put: IPv4/UDP with the destination port     *)
(* masked, and variants that validation, the L4 test or the outer-header   *)
(* translation refuse                                                      *)
UdpMatch(in_port) ==
    [flow  |-> [ZeroFlow EXCEPT !.in_port = in_port,
                                !.dl_type = ETH_TYPE_IP,
                                !.nw_proto = IPPROTO_UDP,
                                !.tp_dst = 53],
     masks |-> [ZeroFlow EXCEPT !.in_port = OVS_BE16_MAX,
                                !.dl_type = OVS_BE16_MAX,
                                !.nw_proto = UINT8_MOD - 1,
                                !.tp_dst = OVS_BE16_MAX]]

MetadataMatch(in_port) ==
    [UdpMatch(in_port) EXCEPT !.flow.metadata = 1, !.masks.metadata = 1]

GreMatch(in_port) == [UdpMatch(in_port) EXCEPT !.flow.nw_proto = 47]

TunnelMatch(in_port) ==
    [UdpMatch(in_port) EXCEPT
        !.flow.tunnel = [ZeroTunnel EXCEPT !.ip_src = 167772161,
                                           !.ip_dst = 167772162,
                                           !.tun_id = 100,
                                           !.tp_dst = 4789],
        !.masks.tunnel = [ZeroTunnel EXCEPT !.ip_src = 16777215,
                                            !.ip_dst = 16777215,
                                            !.tun_id = 16777215]]

(* the fields of struct flow that validation refuses when masked, and a  *)
(* match with one of them set and masked                                   *)
RefusedFields ==
    {"metadata", "skb_priority", "pkt_mark", "dp_hash", "ct_nw_proto",
     "ct_zone", "ct_mark", "ct_label", "conj_id", "actset_output",
     "mpls_lse", "ipv6_label", "ct_nw_src", "ct_nw_dst", "ipv6_src",
     "ipv6_dst", "ct_ipv6_src", "ct_ipv6_dst", "nd_target", "nsh",
     "arp_sha", "arp_tha", "nw_frag", "igmp_group_ip4", "ct_tp_src",
     "ct_tp_dst"}

WithField(match, f) == [match EXCEPT !.flow[f] = 1, !.masks[f] = 1]

PhysMatches(in_port) ==
    {UdpMatch(in_port), MetadataMatch(in_port), GreMatch(in_port),
     TunnelMatch(in_port)}
        \cup {WithField(UdpMatch(in_port), f) : f \in RefusedFields}

VportMatches(in_port) ==
    {TunnelMatch(in_port),
     [TunnelMatch(in_port) EXCEPT !.flow.metadata = 1, !.masks.metadata = 1],
     [TunnelMatch(in_port) EXCEPT !.flow.nw_proto = 47],
     [TunnelMatch(in_port) EXCEPT !.flow.dl_type = 34525]}
        \cup {WithField(TunnelMatch(in_port), f) : f \in RefusedFields}

PhysActionLists ==
    {<<>>, <<NlSet>>}
        \cup {<<NlOutput(p)>> : p \in Ports \cup {NoSuchPort}}
        \cup {<<NlTunnelPop(p)>> : p \in Ports \cup {NoSuchPort}}
        \cup {<<NlClone(p)>> : p \in Ports \cup {NoSuchPort}}
        \cup {<<NlOutput(p), NlSet>> : p \in Ports}

VportActionLists ==
    {<<>>, <<NlSet>>, <<NlRecirc>>, <<NlCt(0), NlRecirc>>, <<NlCt(1)>>}
        \cup {<<NlOutput(p)>> : p \in Ports \cup {NoSuchPort}}
        \cup {<<NlOutput(NoSuchPort), NlOutput(p)>> : p \in Ports}
        \cup {<<NlOutput(p), NlOutput(NoSuchPort)>> : p \in Ports}

(***************************************************************************)
(* netdev_rte_offloads_validate_flow.                                      *)
(***************************************************************************)
(* match_init: the flow's tunnel fields under their masks *)
match_zero_wc_tunnel(match) ==
    [f \in DOMAIN ZeroTunnel |->
        BitAnd(match.flow.tunnel[f], match.masks.tunnel[f])]

(* the masks tested under "Unsupported L4": the mutation tests one only *)
ValidateL4IgmpOnly(masks) == masks.igmp_group_ip4 # 0

ValidateL4(masks) ==
    \/ masks.igmp_group_ip4 # 0
    \/ masks.ct_tp_src # 0
    \/ masks.ct_tp_dst # 0

netdev_rte_offloads_validate_flow(match, is_tun) ==
    LET masks == match.masks
    IN
    IF ~is_tun /\ match_zero_wc_tunnel(match) # ZeroTunnel THEN -1
    ELSE IF \/ masks.metadata # 0
            \/ masks.skb_priority # 0
            \/ masks.pkt_mark # 0
            \/ masks.dp_hash # 0 THEN -1
    ELSE IF \/ (masks.ct_state # 0
                   /\ BitAnd(masks.ct_state, CS_ESTABLISHED) = 0)
            \/ masks.ct_nw_proto # 0
            \/ masks.ct_zone # 0
            \/ masks.ct_mark # 0
            \/ masks.ct_label # 0 THEN -1
    ELSE IF masks.conj_id # 0 \/ masks.actset_output # 0 THEN -1
    ELSE IF masks.mpls_lse # 0 THEN -1
    ELSE IF \/ masks.ipv6_label # 0
            \/ masks.ct_nw_src # 0
            \/ masks.ct_nw_dst # 0
            \/ masks.ipv6_src # 0
            \/ masks.ipv6_dst # 0
            \/ masks.ct_ipv6_src # 0
            \/ masks.ct_ipv6_dst # 0
            \/ masks.nd_target # 0
            \/ masks.nsh # 0
            \/ masks.arp_sha # 0
            \/ masks.arp_tha # 0 THEN -1
    ELSE IF BitAnd(match.flow.nw_frag, masks.nw_frag) # 0 THEN -1
    ELSE IF ValidateL4(masks) THEN -1
    ELSE 0

(***************************************************************************)
(* add_vport_vxlan_flow_patterns: the outer header of a tunnel match.  The *)
(* tunnel id is kept as the 24-bit VNI; the three bytes taken from it are  *)
(* the VNI's bytes in wire order.                                          *)
(***************************************************************************)
add_vport_vxlan_flow_patterns(items0, st, match) ==
    LET t == match.flow.tunnel
        tm == match.masks.tunnel
        spec1 == [ZeroItems EXCEPT !.ipv4 =
                     [type_of_service |-> t.ip_tos,
                      time_to_live |-> t.ip_ttl,
                      next_proto_id |-> IPPROTO_UDP,
                      src_addr |-> t.ip_src,
                      dst_addr |-> t.ip_dst]]
        mask1 == [ZeroItems EXCEPT !.ipv4 =
                     [type_of_service |-> tm.ip_tos,
                      time_to_live |-> tm.ip_ttl,
                      next_proto_id |-> UINT8_MOD - 1,
                      src_addr |-> tm.ip_src,
                      dst_addr |-> tm.ip_dst]]
        items1 == add_flow_pattern(items0, "IPV4", st, "ipv4")
        proto == BitAnd(spec1.ipv4.next_proto_id, mask1.ipv4.next_proto_id)
        spec2 == [spec1 EXCEPT !.udp = [src_port |-> t.tp_src,
                                        dst_port |-> t.tp_dst]]
        mask2 == [mask1 EXCEPT !.udp = [src_port |-> match.masks.tp_src,
                                        dst_port |-> match.masks.tp_dst]]
        items2 == add_flow_pattern(items1, "UDP", st, "udp")
        vni(v) == <<(v \div 65536) % UINT8_MOD, (v \div 256) % UINT8_MOD,
                    v % UINT8_MOD>>
        spec3 == [spec2 EXCEPT !.vxlan = [flags |-> t.flags,
                                          vni |-> vni(t.tun_id)]]
        mask3 == [mask2 EXCEPT !.vxlan = [flags |-> 0,
                                          vni |-> vni(tm.tun_id)]]
        items3 == add_flow_pattern(items2, "VXLAN", st, "vxlan")
    IN
    IF match.flow.dl_type # ETH_TYPE_IP
    THEN [ret |-> -1, items |-> items0, spec |-> ZeroItems,
          mask |-> ZeroItems]
    ELSE IF proto # IPPROTO_UDP
    THEN [ret |-> -1, items |-> items1, spec |-> spec1, mask |-> mask1]
    ELSE [ret |-> 0, items |-> items3, spec |-> spec3, mask |-> mask3]

(* netdev_vport_vxlan_add_rte_flow_offload, pattern part: the outer        *)
(* header, the inner header, END.                                          *)
VportPatterns(match) ==
    LET o == add_vport_vxlan_flow_patterns(<<>>, "outer", match)
        i == add_flow_patterns(o.items, "inner", match)
        store == [outer |-> [spec |-> o.spec, mask |-> o.mask],
                  inner |-> [spec |-> i.spec, mask |-> i.mask]]
    IN IF o.ret # 0 THEN [ret |-> o.ret, items |-> <<>>]
       ELSE IF i.ret # 0 THEN [ret |-> i.ret, items |-> <<>>]
       ELSE [ret |-> 0,
             items |-> DriverItems(
                           add_flow_pattern(i.items, "END", "NULL", "NULL"),
                           store)]

(***************************************************************************)
(* The driver (netdev_dpdk_rte_flow_create / _destroy).  During a call the *)
(* driver state is d = [flows, log]: the live flows and the calls made so  *)
(* far.  A flow destroyed through a netdev other than the one it was       *)
(* created on may or may not go away: `surv` is the set of such flows that *)
(* stay.                                                                   *)
(***************************************************************************)
FlowIds(flows) == {f.flow : f \in flows}

(* the handle the driver returns: the lowest free one *)
NewFlow(flows) ==
    CHOOSE h \in 1..MaxHandles :
        /\ h \notin FlowIds(flows)
        /\ \A g \in 1..MaxHandles : g \notin FlowIds(flows) => h <= g

FlowAttr(group, priority, transfer) ==
    [group |-> group, priority |-> priority, transfer |-> transfer]

RteAction(type, conf) == [type |-> type, conf |-> conf]

add_flow_action(actions, type, conf) == Append(actions, RteAction(type, conf))

Types(seq) == [i \in DOMAIN seq |-> seq[i].type]

LogEntry(call, netdev, flow, attr, items, actions) ==
    [call |-> call, netdev |-> netdev, flow |-> flow, attr |-> attr,
     items |-> Types(items), actions |-> Types(actions),
     jump |-> {actions[i].conf :
                  i \in {k \in DOMAIN actions : actions[k].type = "JUMP"}}]

(* netdev_dpdk_rte_flow_create; ok: the driver accepts.  [d, flow], flow 0 *)
(* standing for NULL.                                                      *)
netdev_dpdk_rte_flow_create(d, netdev, attr, items, actions, ok, kind, ufid) ==
    IF ok
    THEN LET h == NewFlow(d.flows)
         IN [d |-> [flows |-> d.flows \cup
                        {[flow |-> h, netdev |-> netdev, attr |-> attr,
                          kind |-> kind, ufid |-> ufid]},
                    log |-> Append(d.log, LogEntry("create", netdev, h, attr,
                                                   items, actions))],
             flow |-> h]
    ELSE [d |-> [flows |-> d.flows,
                 log |-> Append(d.log, LogEntry("create", netdev, 0, attr,
                                                items, actions))],
          flow |-> 0]

(* netdev_dpdk_rte_flow_destroy *)
netdev_dpdk_rte_flow_destroy(d, netdev, flow, surv) ==
    [flows |-> {f \in d.flows :
                   f.flow # flow \/ (f.netdev # netdev /\ flow \in surv)},
     log |-> Append(d.log, LogEntry("destroy", netdev, flow,
                                    FlowAttr(0, 0, 0), <<>>, <<>>))]

(* the flows of rte_flow_data that a destroy through the recorded netdev   *)
(* may leave behind                                                        *)
WrongNetdev(flows, rte_flow_data) ==
    {rte_flow_data[i].flow : i \in
        {j \in DOMAIN rte_flow_data :
            \E f \in flows : /\ f.flow = rte_flow_data[j].flow
                             /\ f.netdev # rte_flow_data[j].netdev}}

(***************************************************************************)
(* struct ufid_hw_offload and the ufid -> dp_port map.                     *)
(***************************************************************************)
netdev_rte_port_ufid_hw_offload_alloc(max_flows, ufid) ==
    [ufid |-> ufid, max_flows |-> max_flows, curr_idx |-> 0,
     rte_flow_data |-> <<>>]

(* the mutation: a flow offered to a full identity is dropped *)
AddRteFlowDropping(hw_offload, d, rte_flow, netdev) ==
    IF hw_offload.curr_idx < hw_offload.max_flows
    THEN [hw_offload |->
              [hw_offload EXCEPT
                  !.rte_flow_data = Append(@, [flow |-> rte_flow,
                                               netdev |-> netdev]),
                  !.curr_idx = @ + 1],
          d |-> d]
    ELSE [hw_offload |-> hw_offload, d |-> d]

(* ufid_hw_offload_add_rte_flow: [hw_offload, d] *)
ufid_hw_offload_add_rte_flow(hw_offload, d, rte_flow, netdev) ==
    IF hw_offload.curr_idx < hw_offload.max_flows
    THEN [hw_offload |->
              [hw_offload EXCEPT
                  !.rte_flow_data = Append(@, [flow |-> rte_flow,
                                               netdev |-> netdev]),
                  !.curr_idx = @ + 1],
          d |-> d]
    ELSE [hw_offload |-> hw_offload,
          d |-> netdev_dpdk_rte_flow_destroy(d, netdev, rte_flow, {})]

(* netdev_rte_port_ufid_hw_offload_free: destroy rte_flow_data[i..] *)
RECURSIVE FreeFrom(_, _, _, _)
FreeFrom(d, hw_offload, i, surv) ==
    IF i > hw_offload.curr_idx THEN d
    ELSE FreeFrom(
             IF hw_offload.rte_flow_data[i].flow # 0
             THEN netdev_dpdk_rte_flow_destroy(
                      d, hw_offload.rte_flow_data[i].netdev,
                      hw_offload.rte_flow_data[i].flow, surv)
             ELSE d,
             hw_offload, i + 1, surv)

netdev_rte_port_ufid_hw_offload_free(d, hw_offload, surv) ==
    FreeFrom(d, hw_offload, 1, surv)

ufid_to_portid_search(map, ufid) ==
    IF ufid \in DOMAIN map THEN map[ufid] ELSE INVALID_ODP_PORT

ufid_to_portid_add(map, ufid, dp_port) ==
    IF ufid_to_portid_search(map, ufid) # INVALID_ODP_PORT THEN map
    ELSE MapPut(map, ufid, dp_port)

ufid_to_portid_remove(map, ufid) == MapDel(map, ufid)

(***************************************************************************)
(* Action translation of netdev_rte_offloads_add_flow.  pm is port_map.    *)
(***************************************************************************)
(* get_output_port: [ret, id] *)
get_output_port(pm, a) ==
    IF a.port \in DOMAIN pm
    THEN [ret |-> 0, id |-> pm[a.port].dpdk_port_id]
    ELSE [ret |-> EINVAL, id |-> 0]

(* netdev_rte_add_clone_flow_action from nested action i on: [result,      *)
(* actions]                                                                *)
RECURSIVE netdev_rte_add_clone_flow_action(_, _, _, _)
netdev_rte_add_clone_flow_action(pm, ca, i, actions) ==
    IF i > Len(ca) THEN [result |-> 0, actions |-> actions]
    ELSE IF ca[i].type = "TUNNEL_PUSH"
    THEN netdev_rte_add_clone_flow_action(
             pm, ca, i + 1, add_flow_action(actions, "RAW_ENCAP", 0))
    ELSE IF ca[i].type = "OUTPUT"
    THEN LET o == get_output_port(pm, ca[i])
         IN IF o.ret # 0 THEN [result |-> o.ret, actions |-> actions]
            ELSE netdev_rte_add_clone_flow_action(
                     pm, ca, i + 1,
                     add_flow_action(add_flow_action(actions, "COUNT", 0),
                                     "PORT_ID", o.id))
    ELSE netdev_rte_add_clone_flow_action(pm, ca, i + 1, actions)

(* the NL_ATTR_FOR_EACH loop from action i on; acc = [result, actions,     *)
(* action_bitmap, vport], vport 0 standing for NULL                        *)
RECURSIVE AddFlowActions(_, _, _, _)
AddFlowActions(pm, nl_actions, i, acc) ==
    IF i > Len(nl_actions) THEN acc
    ELSE LET a == nl_actions[i]
         IN
         IF a.type = "TUNNEL_POP"
         THEN IF a.port \notin DOMAIN pm
              THEN [acc EXCEPT !.result = -1]
              ELSE AddFlowActions(pm, nl_actions, i + 1,
                       [acc EXCEPT
                           !.actions = add_flow_action(
                               add_flow_action(@, "JUMP", pm[a.port].table_id),
                               "COUNT", 0),
                           !.action_bitmap = @ \cup {"TUNNEL_POP"},
                           !.vport = a.port,
                           !.result = 0])
         ELSE IF a.type = "OUTPUT"
         THEN LET o == get_output_port(pm, a)
              IN IF o.ret # 0 THEN [acc EXCEPT !.result = o.ret]
                 ELSE AddFlowActions(pm, nl_actions, i + 1,
                          [acc EXCEPT
                              !.actions = add_flow_action(
                                  add_flow_action(@, "COUNT", 0),
                                  "PORT_ID", o.id),
                              !.action_bitmap = @ \cup {"OUTPUT"},
                              !.result = 0])
         ELSE IF a.type = "CLONE"
         THEN LET c == netdev_rte_add_clone_flow_action(pm, a.nested, 1,
                                                        acc.actions)
              IN IF c.result # 0
                 THEN [acc EXCEPT !.result = c.result, !.actions = c.actions]
                 ELSE AddFlowActions(pm, nl_actions, i + 1,
                          [acc EXCEPT !.actions = c.actions,
                                      !.action_bitmap = @ \cup {"CLONE"},
                                      !.result = 0])
         ELSE [acc EXCEPT !.result = -1]

NoActions == [result |-> 0, actions |-> <<>>, action_bitmap |-> {}, vport |-> 0]

EndItems == <<[type |-> "END", spec |-> "NULL", mask |-> "NULL"]>>

(* netdev_rte_offload_mark_rss: MARK, RSS and END after what `actions`     *)
(* already holds                                                           *)
netdev_rte_offload_mark_rss(d, netdev, info, items, actions, attr, ok, kind, ufid) ==
    netdev_dpdk_rte_flow_create(
        d, netdev, attr, items,
        add_flow_action(
            add_flow_action(add_flow_action(actions, "MARK", info.flow_mark),
                            "RSS", 0),
            "END", 0),
        ok, kind, ufid)

(* netdev_rte_offload_flow *)
netdev_rte_offload_flow(d, netdev, items, actions, attr, ok, kind, ufid) ==
    netdev_dpdk_rte_flow_create(d, netdev, attr, items,
                                add_flow_action(actions, "END", 0),
                                ok, kind, ufid)

(* netdev_dpdk_add_jump_to_non_root_table *)
netdev_dpdk_add_jump_to_non_root_table(d, netdev, ok, ufid) ==
    netdev_rte_offload_flow(d, netdev, EndItems,
                            add_flow_action(<<>>, "JUMP", 1),
                            FlowAttr(0, 1, 1), ok, "jump", ufid)

(* netdev_rte_offload_add_default_flow *)
netdev_rte_offload_add_default_flow(d, rte_port, vport, ok) ==
    netdev_dpdk_rte_flow_create(
        d, rte_port.netdev, FlowAttr(vport.table_id, 1, 0), EndItems,
        add_flow_action(
            add_flow_action(add_flow_action(<<>>, "RSS", 0),
                            "MARK", vport.exception_mark),
            "END", 0),
        ok, "default", 0)

(***************************************************************************)
(* netdev_rte_offloads_add_flow.  dec = [jump, flow, def]: whether the     *)
(* driver accepts the jump flow, the flow itself (offloaded or mark+RSS)   *)
(* and the default flow.  Result [d, pm, flow].                            *)
(***************************************************************************)
(* `out:` with the flow the last create returned *)
AddFlowOut(pm, c) == [d |-> c.d, pm |-> pm, flow |-> c.flow]

(* the default flow df has been asked for: the slot takes what came back,  *)
(* the flow stays installed either way                                     *)
AddFlowDefaultSet(pm, port_id, table_id, flow, df) ==
    [d |-> df.d,
     pm |-> IF df.flow # 0
            THEN [pm EXCEPT ![port_id].default_rte_flow =
                                MapPut(@, table_id, df.flow)]
            ELSE pm,
     flow |-> flow]

(* after netdev_rte_offload_flow returned m *)
AddFlowOffloaded(pm, port_id, act, dec, m) ==
    IF m.flow = 0 THEN AddFlowOut(pm, m)
    ELSE IF /\ "TUNNEL_POP" \in act.action_bitmap
            /\ pm[act.vport].table_id
                   \notin DOMAIN pm[port_id].default_rte_flow
    THEN AddFlowDefaultSet(
             pm, port_id, pm[act.vport].table_id, m.flow,
             netdev_rte_offload_add_default_flow(m.d, pm[port_id],
                                                 pm[act.vport], dec.def))
    ELSE AddFlowOut(pm, m)

(* the actions are supported: offload the flow into `group` *)
AddFlowOffload(d, pm, netdev, match, ufid, dec, pat, act, group) ==
    AddFlowOffloaded(
        pm, match.flow.in_port, act, dec,
        netdev_rte_offload_flow(d, netdev, pat.items, act.actions,
                                FlowAttr(group, 0, 1), dec.flow, "flow",
                                ufid))

(* after netdev_dpdk_add_jump_to_non_root_table returned j *)
AddFlowJumped(pm, netdev, match, ufid, dec, pat, act, j) ==
    IF j.flow = 0 THEN AddFlowOut(pm, j)
    ELSE AddFlowOffload(j.d, pm, netdev, match, ufid, dec, pat, act, 1)

(* patterns and actions are translated *)
AddFlowTranslated(d, pm, netdev, match, ufid, info, dec, pat, act) ==
    IF pat.ret # 0 THEN [d |-> d, pm |-> pm, flow |-> 0]
    ELSE IF act.result # 0
    THEN AddFlowOut(pm, netdev_rte_offload_mark_rss(
                            d, netdev, info, pat.items, act.actions,
                            FlowAttr(0, 0, 0), dec.flow, "mark_rss", ufid))
    ELSE IF "CLONE" \in act.action_bitmap
    THEN AddFlowJumped(pm, netdev, match, ufid, dec, pat, act,
                       netdev_dpdk_add_jump_to_non_root_table(
                           d, netdev, dec.jump, ufid))
    ELSE AddFlowOffload(d, pm, netdev, match, ufid, dec, pat, act, 0)

netdev_rte_offloads_add_flow(d, pm, netdev, match, nl_actions, ufid, info, dec) ==
    AddFlowTranslated(d, pm, netdev, match, ufid, info, dec,
                      PhysPatterns(match),
                      AddFlowActions(pm, nl_actions, 1, NoActions))

(***************************************************************************)
(* netdev_rte_offloads_flow_put.  Result [ret, pm, map, d]: the status,    *)
(* port_map, ufid_to_portid_map and the driver after the call.             *)
(***************************************************************************)
Driver0 == [flows |-> rte_flows, log |-> <<>>]

(* the flow came back: record it in the identity *)
FlowPutRecorded(in_port, ufid, pm, map, a) ==
    [ret |-> 0,
     pm |-> [pm EXCEPT ![in_port].ufid_to_rte[ufid] = a.hw_offload],
     map |-> map, d |-> a.d]

(* after netdev_rte_offloads_add_flow returned r *)
FlowPutAdded(netdev, in_port, ufid, map, r) ==
    IF r.flow = 0
    THEN [ret |-> ENODEV, pm |-> r.pm, map |-> map, d |-> r.d]
    ELSE FlowPutRecorded(
             in_port, ufid, r.pm, map,
             ufid_hw_offload_add_rte_flow(r.pm[in_port].ufid_to_rte[ufid],
                                          r.d, r.flow, netdev))

(* the new identity and the ufid -> port entry are in place *)
FlowPutRegistered(netdev, match, nl_actions, ufid, info, dec, pm, map, d) ==
    IF netdev_rte_offloads_validate_flow(match, FALSE) < 0
    THEN [ret |-> EINVAL, pm |-> pm, map |-> map, d |-> d]
    ELSE FlowPutAdded(netdev, match.flow.in_port, ufid, map,
                      netdev_rte_offloads_add_flow(d, pm, netdev, match,
                                                   nl_actions, ufid, info,
                                                   dec))

(* the ingress port is registered as rte_port *)
FlowPutFound(netdev, match, nl_actions, ufid, info, dec, surv, rte_port) ==
    FlowPutRegistered(
        netdev, match, nl_actions, ufid, info, dec,
        [port_map EXCEPT ![rte_port.dp_port].ufid_to_rte =
            MapPut(@, ufid, netdev_rte_port_ufid_hw_offload_alloc(1, ufid))],
        ufid_to_portid_add(ufid_to_portid_map, ufid, rte_port.dp_port),
        IF ufid \in DOMAIN rte_port.ufid_to_rte
        THEN netdev_rte_port_ufid_hw_offload_free(
                 Driver0, rte_port.ufid_to_rte[ufid], surv)
        ELSE Driver0)

netdev_rte_offloads_flow_put(netdev, match, nl_actions, ufid, info, dec, surv) ==
    IF match.flow.in_port \notin DOMAIN port_map
    THEN [ret |-> EINVAL, pm |-> port_map, map |-> ufid_to_portid_map,
          d |-> Driver0]
    ELSE FlowPutFound(netdev, match, nl_actions, ufid, info, dec, surv,
                      port_map[match.flow.in_port])

(* netdev_offloads_flow_del leaving the freed identity linked in the      *)
(* port's ufid_to_rte map (no ufid_hw_offload_remove before the free)      *)
FlowDelKeeps(ufid, surv, port_num) ==
    [ret |-> 0,
     pm |-> port_map,
     map |-> ufid_to_portid_remove(ufid_to_portid_map, ufid),
     d |-> IF ufid \in DOMAIN port_map[port_num].ufid_to_rte
           THEN netdev_rte_port_ufid_hw_offload_free(
                    Driver0, port_map[port_num].ufid_to_rte[ufid], surv)
           ELSE Driver0]

(* netdev_offloads_flow_del (netdev_rte_offloads_flow_del and              *)
(* netdev_rte_vport_flow_del both call it)                                 *)
FlowDelFound(ufid, surv, port_num) ==
    [ret |-> 0,
     pm |-> IF ufid \in DOMAIN port_map[port_num].ufid_to_rte
            THEN [port_map EXCEPT ![port_num].ufid_to_rte = MapDel(@, ufid)]
            ELSE port_map,
     map |-> ufid_to_portid_remove(ufid_to_portid_map, ufid),
     d |-> IF ufid \in DOMAIN port_map[port_num].ufid_to_rte
           THEN netdev_rte_port_ufid_hw_offload_free(
                    Driver0, port_map[port_num].ufid_to_rte[ufid], surv)
           ELSE Driver0]

netdev_offloads_flow_del(ufid, surv) ==
    IF ufid_to_portid_search(ufid_to_portid_map, ufid) = INVALID_ODP_PORT
    THEN [ret |-> EINVAL, pm |-> port_map, map |-> ufid_to_portid_map,
          d |-> Driver0]
    ELSE IF ufid_to_portid_search(ufid_to_portid_map, ufid)
                \notin DOMAIN port_map
    THEN [ret |-> ENODEV, pm |-> port_map, map |-> ufid_to_portid_map,
          d |-> Driver0]
    ELSE FlowDelFound(ufid, surv,
                      ufid_to_portid_search(ufid_to_portid_map, ufid))

(***************************************************************************)
(* netdev_vport_vxlan_add_rte_flow_offload.                                *)
(***************************************************************************)
(* the NL_ATTR_FOR_EACH loop from action i on; acc = [ret, action_bitmap,  *)
(* port_id, out], out: the loop left through `goto out`                    *)
RECURSIVE VxlanActions(_, _, _, _)
VxlanActions(pm, nl_actions, i, acc) ==
    IF i > Len(nl_actions) THEN acc
    ELSE LET a == nl_actions[i]
         IN
         IF a.type = "OUTPUT"
         THEN LET o == get_output_port(pm, a)
              IN IF o.ret # 0
                 THEN VxlanActions(pm, nl_actions, i + 1,
                                   [acc EXCEPT !.ret = o.ret])
                 ELSE VxlanActions(pm, nl_actions, i + 1,
                          [acc EXCEPT !.ret = 0, !.port_id = o.id,
                                      !.action_bitmap = @ \cup {"OUTPUT"}])
         ELSE IF a.type = "CT"
         THEN IF a.zone # 0
              THEN [acc EXCEPT !.ret = EOPNOTSUPP, !.out = TRUE]
              ELSE VxlanActions(pm, nl_actions, i + 1,
                       [acc EXCEPT !.action_bitmap = @ \cup {"CT"}])
         ELSE IF a.type = "RECIRC"
         THEN IF "CT" \notin acc.action_bitmap
              THEN [acc EXCEPT !.ret = EOPNOTSUPP, !.out = TRUE]
              ELSE VxlanActions(pm, nl_actions, i + 1,
                       [acc EXCEPT !.action_bitmap = @ \cup {"RECIRC"}])
         ELSE [acc EXCEPT !.ret = EOPNOTSUPP, !.out = TRUE]

(* one uplink port p of the CMAP_FOR_EACH loop over port_map: the decap    *)
(* flow, the mark+RSS flow when the driver refuses it, and the recording.  *)
(* x = [rte_port, items, act, info, ufid, rejP, rejF]: rejP / rejF are the *)
(* ports on which the driver rejects the decap flow / the mark+RSS flow.   *)
VxlanDecap == add_flow_action(<<>>, "VXLAN_DECAP", 0)

VxlanRecord(hw_offload, x, c) ==
    IF c.flow # 0
    THEN ufid_hw_offload_add_rte_flow(hw_offload, c.d, c.flow,
                                      x.rte_port.netdev)
    ELSE [hw_offload |-> hw_offload, d |-> c.d]

VxlanFallback(netdev, p, x, c) ==
    IF c.flow # 0 THEN c
    ELSE netdev_rte_offload_mark_rss(
             c.d, netdev, x.info, x.items, VxlanDecap,
             FlowAttr(x.rte_port.table_id, 0, 0), p \notin x.rejF,
             "vxlan_mark_rss", x.ufid)

VxlanInstall(a, netdev, p, x) ==
    VxlanRecord(
        a.hw_offload, x,
        VxlanFallback(
            netdev, p, x,
            netdev_dpdk_rte_flow_create(
                a.d, netdev, FlowAttr(x.rte_port.table_id, 0, 1), x.items,
                add_flow_action(
                    IF "OUTPUT" \in x.act.action_bitmap
                    THEN add_flow_action(
                             add_flow_action(VxlanDecap, "COUNT", 0),
                             "PORT_ID", x.act.port_id)
                    ELSE VxlanDecap,
                    "END", 0),
                p \notin x.rejP, "vxlan", x.ufid)))

(* the loop, taken in dp_port order from p on; a = [hw_offload, d] *)
RECURSIVE VxlanFanOut(_, _, _, _)
VxlanFanOut(a, pm, p, x) ==
    IF p > MaxPorts THEN a
    ELSE VxlanFanOut(
             IF /\ p \in DOMAIN pm
                /\ pm[p].rte_port_type = "DPDK"
                /\ netdev_dpdk_is_uplink_port(pm[p].netdev)
             THEN VxlanInstall(a, pm[p].netdev, p, x)
             ELSE a,
             pm, p + 1, x)

(* Result [ret, pm, map, d]; in_port is the vxlan port's dp_port. *)
VxlanInstalled(in_port, ufid, ret, pm, map, f) ==
    [ret |-> ret,
     pm |-> [pm EXCEPT ![in_port].ufid_to_rte[ufid] = f.hw_offload],
     map |-> map, d |-> f.d]

(* the new identity hw and the ufid -> port entry are in place *)
VxlanRegistered(rte_port, ufid, info, rejP, rejF, hw, pm, map, d, pat, act) ==
    IF pat.ret # 0
    THEN [ret |-> pat.ret, pm |-> pm, map |-> map, d |-> d]
    ELSE IF act.out
    THEN [ret |-> act.ret, pm |-> pm, map |-> map, d |-> d]
    ELSE VxlanInstalled(
             rte_port.dp_port, ufid, act.ret, pm, map,
             VxlanFanOut([hw_offload |-> hw, d |-> d], pm, 1,
                         [rte_port |-> rte_port, items |-> pat.items,
                          act |-> act, info |-> info, ufid |-> ufid,
                          rejP |-> rejP, rejF |-> rejF]))

VxlanRegister(rte_port, match, nl_actions, ufid, info, rejP, rejF, hw, pm, d) ==
    VxlanRegistered(
        rte_port, ufid, info, rejP, rejF, hw, pm,
        ufid_to_portid_add(ufid_to_portid_map, ufid, rte_port.dp_port), d,
        VportPatterns(match),
        VxlanActions(pm, nl_actions, 1,
                     [ret |-> 0, action_bitmap |-> {}, port_id |-> 0,
                      out |-> FALSE]))

(* an old identity, if any, is freed: pm0 and d are what that left *)
VxlanFreed(rte_port, match, nl_actions, ufid, info, rejP, rejF, pm0, d) ==
    IF dpdk_phy_ports_amount = 0
    THEN [ret |-> -1, pm |-> pm0, map |-> ufid_to_portid_map, d |-> d]
    ELSE VxlanRegister(
             rte_port, match, nl_actions, ufid, info, rejP, rejF,
             netdev_rte_port_ufid_hw_offload_alloc(dpdk_phy_ports_amount,
                                                   ufid),
             [pm0 EXCEPT ![rte_port.dp_port].ufid_to_rte =
                 MapPut(@, ufid,
                        netdev_rte_port_ufid_hw_offload_alloc(
                            dpdk_phy_ports_amount, ufid))],
             d)

netdev_vport_vxlan_add_rte_flow_offload(rte_port, match, nl_actions, ufid, info, rejP, rejF, surv) ==
    IF Len(nl_actions) = 0
    THEN [ret |-> 0, pm |-> port_map, map |-> ufid_to_portid_map,
          d |-> Driver0]
    ELSE IF ufid \in DOMAIN rte_port.ufid_to_rte
    THEN VxlanFreed(
             rte_port, match, nl_actions, ufid, info, rejP, rejF,
             [port_map EXCEPT ![rte_port.dp_port].ufid_to_rte =
                 MapDel(@, ufid)],
             netdev_rte_port_ufid_hw_offload_free(
                 Driver0, rte_port.ufid_to_rte[ufid], surv))
    ELSE VxlanFreed(rte_port, match, nl_actions, ufid, info, rejP, rejF,
                    port_map, Driver0)

(* netdev_rte_vport_flow_put *)
netdev_rte_vport_flow_put(match, nl_actions, ufid, info, rejP, rejF, surv) ==
    IF netdev_rte_offloads_validate_flow(match, TRUE) # 0
    THEN [ret |-> EOPNOTSUPP, pm |-> port_map, map |-> ufid_to_portid_map,
          d |-> Driver0]
    ELSE IF /\ match.flow.in_port \in DOMAIN port_map
            /\ port_map[match.flow.in_port].rte_port_type = "VXLAN"
    THEN netdev_vport_vxlan_add_rte_flow_offload(
             port_map[match.flow.in_port], match, nl_actions, ufid, info,
             rejP, rejF, surv)
    ELSE [ret |-> 0, pm |-> port_map, map |-> ufid_to_portid_map,
          d |-> Driver0]

(***************************************************************************)
(* Port registry: netdev_rte_offloads_port_add / _port_del.                *)
(***************************************************************************)
(* a struct netdev_rte_port as xzalloc and cmap_init leave it *)
ZeroPort ==
    [dp_port |-> 0, dpdk_port_id |-> 0, netdev |-> Netdev(0, "none"),
     rte_port_type |-> "UNKNOWN", table_id |-> 0, exception_mark |-> 0,
     ufid_to_rte |-> EmptyMap, default_rte_flow |-> EmptyMap]

netdev_rte_port_set(pm, netdev, dp_port, port_type) ==
    LET rte_port == IF dp_port \in DOMAIN pm THEN pm[dp_port] ELSE ZeroPort
    IN MapPut(pm, dp_port,
              [rte_port EXCEPT !.netdev = netdev, !.dp_port = dp_port,
                               !.rte_port_type = port_type])

(* Result [ret, pm, amount, marks]. *)
netdev_rte_offloads_port_add(netdev, dp_port) ==
    IF netdev.type = "dpdk"
    THEN [ret |-> 0,
          pm |-> [netdev_rte_port_set(port_map, netdev, dp_port, "DPDK")
                     EXCEPT ![dp_port].dpdk_port_id =
                                netdev_dpdk_get_port_id(netdev)],
          amount |-> dpdk_phy_ports_amount + 1,
          marks |-> mark_to_rte_port]
    ELSE IF netdev.type = "vxlan"
    THEN [ret |-> 0,
          pm |-> [netdev_rte_port_set(port_map, netdev, dp_port, "VXLAN")
                     EXCEPT ![dp_port].table_id = VXLAN_TABLE_ID,
                            ![dp_port].exception_mark = VXLAN_EXCEPTION_MARK],
          amount |-> dpdk_phy_ports_amount,
          marks |-> Append(mark_to_rte_port, dp_port)]
    ELSE [ret |-> 0, pm |-> port_map, amount |-> dpdk_phy_ports_amount,
          marks |-> mark_to_rte_port]

(* netdev_rte_port_clean_all: the identities of ufid_to_rte from ufid u on *)
RECURSIVE CleanAllFrom(_, _, _, _)
CleanAllFrom(d, rte_port, u, surv) ==
    IF u > MaxUfid THEN d
    ELSE CleanAllFrom(
             IF u \in DOMAIN rte_port.ufid_to_rte
             THEN netdev_rte_port_ufid_hw_offload_free(
                      d, rte_port.ufid_to_rte[u], surv)
             ELSE d,
             rte_port, u + 1, surv)

netdev_rte_port_clean_all(d, rte_port, surv) ==
    CleanAllFrom(d, rte_port, 1, surv)

(* netdev_rte_port_del_default_rules: default_rte_flow[i..] *)
RECURSIVE DelDefaultRulesFrom(_, _, _, _)
DelDefaultRulesFrom(d, rte_port, i, surv) ==
    IF i >= RTE_FLOW_MAX_TABLES THEN d
    ELSE DelDefaultRulesFrom(
             IF i \in DOMAIN rte_port.default_rte_flow
             THEN netdev_dpdk_rte_flow_destroy(
                      d, rte_port.netdev, rte_port.default_rte_flow[i], surv)
             ELSE d,
             rte_port, i + 1, surv)

netdev_rte_port_del_default_rules(d, rte_port, surv) ==
    DelDefaultRulesFrom(d, rte_port, 0, surv)

(* cmap_remove of a mark_node: the first node linked for dp_port goes *)
MarkRemove(marks, dp_port) ==
    LET hit == {i \in DOMAIN marks : marks[i] = dp_port}
    IN IF hit = {} THEN marks
       ELSE RemoveAt(marks, CHOOSE i \in hit : \A j \in hit : i <= j)

(* Result [ret, pm, amount, marks, d]. *)
netdev_rte_offloads_port_del(dp_port, surv) ==
    LET rte_port == port_map[dp_port]
        d0 == Driver0
        d1 == netdev_rte_port_clean_all(d0, rte_port, surv)
    IN
    IF dp_port \notin DOMAIN port_map
    THEN [ret |-> ENODEV, pm |-> port_map, amount |-> dpdk_phy_ports_amount,
          marks |-> mark_to_rte_port, d |-> d0]
    ELSE IF rte_port.rte_port_type = "DPDK"
    THEN [ret |-> 0, pm |-> MapDel(port_map, dp_port),
          amount |-> dpdk_phy_ports_amount - 1,
          marks |-> mark_to_rte_port,
          d |-> netdev_rte_port_del_default_rules(d1, rte_port, surv)]
    ELSE IF rte_port.rte_port_type = "VXLAN"
    THEN [ret |-> 0, pm |-> MapDel(port_map, dp_port),
          amount |-> dpdk_phy_ports_amount,
          marks |-> MarkRemove(mark_to_rte_port, dp_port), d |-> d1]
    ELSE [ret |-> 0, pm |-> MapDel(port_map, dp_port),
          amount |-> dpdk_phy_ports_amount, marks |-> mark_to_rte_port,
          d |-> d1]

(***************************************************************************)
(* The record of the last lifecycle call.  pre: the counts before it;      *)
(* fresh: the ufid had no identity and no port mapping before it; valid:   *)
(* the match passes validation; old: the handles recorded for the ufid     *)
(* before it; uplinks / rejected: the uplink ports the fan-out visited and *)
(* those on which the driver refused both flows; prev: the call before.    *)
(***************************************************************************)
RegEntries(pm) ==
    {e \in Ports \X Ufids :
        e[1] \in DOMAIN pm /\ e[2] \in DOMAIN pm[e[1]].ufid_to_rte}

Snapshot ==
    [reg |-> Cardinality(RegEntries(port_map)),
     map |-> Cardinality(DOMAIN ufid_to_portid_map),
     live |-> FlowIds(rte_flows),
     outer |-> Cardinality(outer_pool.ids),
     hw |-> Cardinality(hw_pool.ids)]

RecordedFlows(pm, ufid) ==
    UNION {{pm[e[1]].ufid_to_rte[ufid].rte_flow_data[i].flow :
               i \in DOMAIN pm[e[1]].ufid_to_rte[ufid].rte_flow_data} :
           e \in {x \in RegEntries(pm) : x[2] = ufid}}

Fresh(ufid) ==
    /\ ufid \notin DOMAIN ufid_to_portid_map
    /\ \A e \in RegEntries(port_map) : e[2] # ufid

NoSnapshot == [reg |-> 0, map |-> 0, live |-> {}, outer |-> 0, hw |-> 0]

NoPrev == [op |-> "none", ufid |-> 0, ret |-> 0, fresh |-> FALSE,
           valid |-> FALSE, pre |-> NoSnapshot]

NoLast ==
    [op |-> "none", ufid |-> 0, port |-> 0, ret |-> 0, log |-> <<>>,
     pre |-> NoSnapshot, fresh |-> FALSE, valid |-> FALSE, old |-> {},
     uplinks |-> {}, rejected |-> {}, denied |-> FALSE, kind |-> "none",
     prev |-> NoPrev]

Prev(l) == [op |-> l.op, ufid |-> l.ufid, ret |-> l.ret, fresh |-> l.fresh,
            valid |-> l.valid, pre |-> l.pre]

Call(op, ufid, port) ==
    [NoLast EXCEPT !.op = op, !.ufid = ufid, !.port = port, !.pre = Snapshot]

(* the match carries a non-zero mask on a field of RefusedFields other    *)
(* than nw_frag, or a non-zero fragmentation value under its mask          *)
Denied(match) ==
    \/ \E f \in RefusedFields \ {"nw_frag"} : match.masks[f] # 0
    \/ BitAnd(match.flow.nw_frag, match.masks.nw_frag) # 0

UplinkPorts(pm) ==
    {p \in DOMAIN pm : /\ pm[p].rte_port_type = "DPDK"
                       /\ netdev_dpdk_is_uplink_port(pm[p].netdev)}

(***************************************************************************)
(* The packet-processing thread in netdev_rte_offload_preprocess: idle, or *)
(* at `pc` holding the port entry `ptr` (a dp_port) it loaded from         *)
(* mark_to_rte_port; freed: port_del has passed that entry to free() since *)
(* the thread loaded it.  deref: the thread has read a field of the entry. *)
(***************************************************************************)
PreIdle == [pc |-> "idle", mark |-> 0, ptr |-> 0, freed |-> FALSE,
            deref |-> FALSE]

(* free(rte_port) at the end of netdev_rte_offloads_port_del *)
PreFreed(rd, dp_port, ret) ==
    IF ret = 0 /\ rd.pc # "idle" /\ rd.ptr = dp_port
    THEN [rd EXCEPT !.freed = TRUE]
    ELSE rd

(* no struct ufid_hw_offload allocated *)
NoIdent == [ufid |-> 0, max_flows |-> -1, curr_idx |-> 0,
            rte_flow_data |-> <<>>]

(***************************************************************************)
(* The offload provider's entry points as actions.                         *)
(***************************************************************************)
FlowInfo(ufid) == [flow_mark |-> ufid]

(* the flows a destroy of ufid's identity in port p may leave behind *)
StaleCandidates(p, ufid) ==
    IF p \in DOMAIN port_map /\ ufid \in DOMAIN port_map[p].ufid_to_rte
    THEN WrongNetdev(rte_flows, port_map[p].ufid_to_rte[ufid].rte_flow_data)
    ELSE {}

HasAction(nl_actions, type) ==
    \E i \in DOMAIN nl_actions : nl_actions[i].type = type

(* the driver's answers that a physical-port request can observe *)
PhysDecisions(nl_actions) ==
    [jump : IF HasAction(nl_actions, "CLONE") THEN BOOLEAN ELSE {TRUE},
     flow : BOOLEAN,
     def  : IF HasAction(nl_actions, "TUNNEL_POP") THEN BOOLEAN ELSE {TRUE}]

(* the requests offered on in_port: the translatable match under every     *)
(* action list and driver answer, the refused matches under one            *)
PhysRequests(in_port) ==
    IF in_port \notin DOMAIN port_map
    THEN {[match |-> UdpMatch(in_port), nl_actions |-> <<NlSet>>,
           dec |-> [jump |-> TRUE, flow |-> TRUE, def |-> TRUE]]}
    ELSE UNION {{[match |-> UdpMatch(in_port), nl_actions |-> a, dec |-> dec] :
                    dec \in PhysDecisions(a)} : a \in PhysActionLists}
         \cup {[match |-> m, nl_actions |-> <<NlOutput(in_port)>>,
                dec |-> [jump |-> TRUE, flow |-> TRUE, def |-> TRUE]] :
                  m \in PhysMatches(in_port) \ {UdpMatch(in_port)}}

VportRequests(in_port) ==
    IF in_port \notin DOMAIN port_map
       \/ port_map[in_port].rte_port_type # "VXLAN"
    THEN {[match |-> TunnelMatch(in_port), nl_actions |-> <<NlSet>>,
           rejP |-> {}, rejF |-> {}]}
    ELSE UNION {{[match |-> TunnelMatch(in_port), nl_actions |-> a,
                  rejP |-> rp, rejF |-> rf] :
                    rf \in SUBSET rp} :
                <<a, rp>> \in
                    VportActionLists \X SUBSET UplinkPorts(port_map)}
         \cup {[match |-> m, nl_actions |-> <<NlOutput(in_port)>>,
                rejP |-> {}, rejF |-> {}] :
                  m \in VportMatches(in_port) \ {TunnelMatch(in_port)}}

(* the vport request gets as far as the loop over the uplink ports *)
VportReachesInstall(in_port, match, nl_actions) ==
    /\ netdev_rte_offloads_validate_flow(match, TRUE) = 0
    /\ in_port \in DOMAIN port_map
    /\ port_map[in_port].rte_port_type = "VXLAN"
    /\ Len(nl_actions) > 0
    /\ dpdk_phy_ports_amount > 0
    /\ VportPatterns(match).ret = 0
    /\ ~VxlanActions(port_map, nl_actions, 1,
                     [ret |-> 0, action_bitmap |-> {}, port_id |-> 0,
                      out |-> FALSE]).out

PortAdd ==
    /\ ncalls < MaxCalls
    /\ ncalls' = ncalls + 1
    /\ \E dp_port \in Ports, type \in {"dpdk", "vxlan", "tap"} :
        LET r == netdev_rte_offloads_port_add(Netdev(dp_port, type), dp_port)
        IN /\ type = "dpdk" => dpdk_phy_ports_amount < MaxPhyAmount
           /\ type = "vxlan" => Len(mark_to_rte_port) < MaxMarkNodes
           /\ port_map' = r.pm
           /\ dpdk_phy_ports_amount' = r.amount
           /\ mark_to_rte_port' = r.marks
           /\ last' = [Call("port_add", 0, dp_port) EXCEPT
                           !.ret = r.ret, !.kind = type]
           /\ UNCHANGED <<ufid_to_portid_map, rte_flows>>
           /\ UNCHANGED <<patvars, tunvars, hwvars, missvars, clast, auxvars>>

PortDel ==
    /\ ncalls < MaxCalls
    /\ ncalls' = ncalls + 1
    /\ \E dp_port \in Ports :
        \E surv \in SUBSET UNION {StaleCandidates(dp_port, u) : u \in Ufids} :
            LET r == netdev_rte_offloads_port_del(dp_port, surv)
            IN /\ port_map' = r.pm
               /\ dpdk_phy_ports_amount' = r.amount
               /\ mark_to_rte_port' = r.marks
               /\ rte_flows' = r.d.flows
               /\ last' = [Call("port_del", 0, dp_port) EXCEPT
                               !.ret = r.ret, !.log = r.d.log]
               /\ pre_rd' = PreFreed(pre_rd, dp_port, r.ret)
               /\ UNCHANGED ufid_to_portid_map
               /\ UNCHANGED <<patvars, tunvars, hwvars, missvars, clast>>
               /\ UNCHANGED <<ident, miss_rd, miss_rcu>>

(* the call `l` returned r = [ret, pm, map, d] *)
Returned(l, r) ==
    /\ port_map' = r.pm
    /\ ufid_to_portid_map' = r.map
    /\ rte_flows' = r.d.flows
    /\ last' = [l EXCEPT !.ret = r.ret, !.log = r.d.log]
    /\ UNCHANGED <<mark_to_rte_port, dpdk_phy_ports_amount>>
    /\ UNCHANGED <<patvars, tunvars, hwvars, missvars, clast, auxvars>>

(* netdev_rte_offloads_flow_put, called with the netdev of the ingress     *)
(* port (a dpdk device)                                                    *)
FlowPut ==
    /\ ncalls < MaxCalls
    /\ ncalls' = ncalls + 1
    /\ \E ufid \in Ufids, in_port \in Ports \cup {NoSuchPort} :
        /\ in_port \in DOMAIN port_map
               => port_map[in_port].netdev.type = "dpdk"
        /\ Cardinality(rte_flows) + 3 <= MaxHandles
        /\ \E q \in PhysRequests(in_port) :
             \E surv \in SUBSET StaleCandidates(in_port, ufid) :
               Returned(
                   [Call("flow_put", ufid, in_port) EXCEPT
                       !.fresh = Fresh(ufid),
                       !.valid = netdev_rte_offloads_validate_flow(
                                     q.match, FALSE) >= 0,
                       !.old = RecordedFlows(port_map, ufid),
                       !.denied = Denied(q.match)],
                   netdev_rte_offloads_flow_put(
                       Netdev(in_port, "dpdk"), q.match, q.nl_actions, ufid,
                       FlowInfo(ufid), q.dec, surv))

(* netdev_rte_vport_flow_put, called for a tunnel port *)
VportFlowPut ==
    /\ ncalls < MaxCalls
    /\ ncalls' = ncalls + 1
    /\ \E ufid \in Ufids, in_port \in Ports \cup {NoSuchPort} :
        /\ in_port \in DOMAIN port_map
               => port_map[in_port].netdev.type = "vxlan"
        /\ Cardinality(rte_flows) + Cardinality(UplinkPorts(port_map))
               <= MaxHandles
        /\ \E q \in VportRequests(in_port) :
             \E surv \in SUBSET StaleCandidates(in_port, ufid) :
               Returned(
                   [Call("vport_flow_put", ufid, in_port) EXCEPT
                       !.fresh = Fresh(ufid),
                       !.valid = VportReachesInstall(in_port, q.match,
                                                     q.nl_actions),
                       !.old = RecordedFlows(port_map, ufid),
                       !.uplinks = UplinkPorts(port_map),
                       !.rejected = q.rejF,
                       !.denied = Denied(q.match)],
                   netdev_rte_vport_flow_put(
                       q.match, q.nl_actions, ufid, FlowInfo(ufid), q.rejP,
                       q.rejF, surv))

(* netdev_rte_offloads_flow_del / netdev_rte_vport_flow_del *)
FlowDel ==
    /\ ncalls < MaxCalls
    /\ ncalls' = ncalls + 1
    /\ \E ufid \in Ufids :
         \E surv \in SUBSET StaleCandidates(
                         ufid_to_portid_search(ufid_to_portid_map, ufid),
                         ufid) :
           Returned(
               [Call("flow_del", ufid,
                     ufid_to_portid_search(ufid_to_portid_map, ufid)) EXCEPT
                   !.old = RecordedFlows(port_map, ufid),
                   !.prev = Prev(last)],
               netdev_offloads_flow_del(ufid, surv))

(* no port registered, no flow offloaded *)
InitLife ==
    /\ port_map = EmptyMap
    /\ mark_to_rte_port = <<>>
    /\ dpdk_phy_ports_amount = 0
    /\ ufid_to_portid_map = EmptyMap
    /\ rte_flows = {}
    /\ last = NoLast
    /\ ncalls = 0

(***************************************************************************)
(* Specifications.                                                         *)
(***************************************************************************)
InitPatIdle == cmatch = ZeroMatch /\ cres = [fn |-> "none"]

InitCtx ==
    /\ tun_to_outer_id_map = {}
    /\ outer_id_to_tun_map = {}
    /\ outer_pool = NoPool
    /\ recirc_id_to_tbl_id_map = <<>>
    /\ port_id_to_tbl_id_map = <<>>
    /\ hw_pool = NoPool
    /\ mark_to_ct_ctx = <<>>
    /\ mpi_mark_to_ct_ctx = <<>>
    /\ clast = NoCall
    /\ InitLife
    /\ ident = NoIdent
    /\ pre_rd = PreIdle
    /\ miss_rd = MissRdIdle
    /\ miss_rcu = [postponed |-> {}, freed |-> {}]

(* the pattern compiler on every match of PatMatches *)
InitPat ==
    /\ cmatch \in PatMatches
    /\ cres = [fn |-> "none"]
    /\ InitCtx

NextPat == PatTranslate \/ PatBuild

SpecPat == InitPat /\ [][NextPat]_vars

(* the outer-id and table-id pools *)
InitPool == InitPatIdle /\ InitCtx

NextPool ==
    \/ TunGetRef
    \/ TunUnref
    \/ HwGetRecirc
    \/ HwGetPort
    \/ HwPutRecirc
    \/ HwPutPort

SpecPool == InitPool /\ [][NextPool]_vars

(* the miss-context store *)
NextMiss == MissSaveCt \/ MissFind \/ MissDel

SpecMiss == InitPool /\ [][NextMiss]_vars

(* the port registry and the flow lifecycle *)
NextFlow ==
    \/ PortAdd
    \/ PortDel
    \/ FlowPut
    \/ VportFlowPut
    \/ FlowDel

SpecFlow == InitPool /\ [][NextFlow]_vars


(***************************************************************************)
(* Properties of the outer-id pool, the table-id pool and the miss-context *)
(* store.                                                                  *)
(***************************************************************************)
C3_GetRefStep(t) ==
    /\ clast'.op = "tun_get_ref"
    /\ clast'.t = t

C3_UnrefStep(t) ==
    /\ clast'.op = "tun_unref"
    /\ clast'.t = t

C3_Step ==
    \A t \in TunTuples :
        /\ (TunNodes(t) = {} /\ C3_GetRefStep(t)
                /\ clast'.ret # INVALID_OUTER_ID)
              => /\ clast'.ret \in outer_pool'.ids
                 /\ {n \in tun_to_outer_id_map' : TunKey(n) = t} =
                        {[ip_dst |-> t.ip_dst, ip_src |-> t.ip_src,
                          tun_id |-> t.tun_id, outer_id |-> clast'.ret,
                          ref_count |-> 1]}
        /\ \A n \in TunNodes(t) :
              /\ C3_GetRefStep(t)
                    => /\ clast'.ret = n.outer_id
                       /\ tun_to_outer_id_map' =
                              (tun_to_outer_id_map \ {n}) \cup
                                  {[n EXCEPT !.ref_count = n.ref_count + 1]}
                       /\ UNCHANGED <<outer_id_to_tun_map, outer_pool>>
              /\ (C3_UnrefStep(t) /\ n.ref_count > 1)
                    => /\ tun_to_outer_id_map' =
                              (tun_to_outer_id_map \ {n}) \cup
                                  {[n EXCEPT !.ref_count = n.ref_count - 1]}
                       /\ n.outer_id \in outer_pool'.ids
                       /\ netdev_dpdk_tun_data_find(n.outer_id) # {}
                       /\ UNCHANGED <<outer_id_to_tun_map, outer_pool>>
              /\ (C3_UnrefStep(t) /\ n.ref_count = 1)
                    => /\ n.outer_id \notin outer_pool'.ids
                       /\ tun_to_outer_id_map' = tun_to_outer_id_map \ {n}
                       /\ \A o \in outer_id_to_tun_map' :
                              o.outer_id # n.outer_id

(* C3: outer-id sharing.  An acquisition for a tuple that has no context    *)
(* takes an id from the pool with reference count 1; every further          *)
(* acquisition for the same tuple returns that same outer-id and adds one   *)
(* to the shared count (1 -> 2); a release from a count above 1 takes one   *)
(* off, keeps the id allocated and keeps both index entries; the release    *)
(* from count 1 returns the id to the pool and removes both entries.        *)
C3_OuterIdSharing == [][C3_Step]_vars

(* a release has just brought a shared tuple back from 2 references to 1 *)
C3_Witness ==
    /\ clast.op = "tun_unref"
    /\ \E n \in tun_to_outer_id_map :
          /\ TunKey(n) = clast.t
          /\ n.ref_count = 1
          /\ n.outer_id \in outer_pool.ids
          /\ netdev_dpdk_tun_data_find(n.outer_id) # {}

C4_GetOp(is_port) ==
    IF is_port THEN "get_port_id_hw_id" ELSE "get_recirc_id_hw_id"

C4_Live(map, id, is_port) ==
    {i \in HwMatches(map, id, is_port) : ~map[i].freed}

C4_Step ==
    \A is_port \in BOOLEAN :
        (/\ clast'.op = C4_GetOp(is_port)
         /\ C4_Live(HwMap(is_port), clast'.id, is_port) = {})
          => IF id_pool_free_ids(netdev_dpdk_hw_id_init) = {}
             THEN /\ clast'.ret = INVALID_HW_ID
                  /\ UNCHANGED <<recirc_id_to_tbl_id_map,
                                 port_id_to_tbl_id_map>>
             ELSE /\ clast'.ret \in id_pool_free_ids(netdev_dpdk_hw_id_init)
                  /\ clast'.ret \in hw_pool'.ids
                  /\ LET map == IF is_port THEN port_id_to_tbl_id_map'
                                ELSE recirc_id_to_tbl_id_map'
                     IN \E i \in DOMAIN map :
                           /\ map[i].id = clast'.id
                           /\ map[i].hw_id = clast'.ret
                           /\ map[i].ref_cnt = 1

(* C4: table-id pool exhaustion.  A request for the table id of a logical   *)
(* id that has no live entry reports the invalid id when every id of the    *)
(* pool is allocated, inserting nothing; otherwise (in particular after a   *)
(* release) it returns an id of the pool's range that no other entry holds  *)
(* and links an entry for it.                                               *)
C4_TableIdExhaustion == [][C4_Step]_vars

C7_Step ==
    /\ (/\ clast.op = "save_ct_miss_ctx"
        /\ clast.ret = 0
        /\ clast'.op = "find_miss_ctx"
        /\ clast'.id = clast.id)
          => /\ clast'.found
             /\ clast'.ctx.mark = clast.id
             /\ clast'.ctx.type = MARK_PREPROCESS_CT
             /\ clast'.ctx.ct.ct_zone = clast.p.ct_zone
             /\ clast'.ctx.ct.ct_state = clast.p.ct_state
             /\ clast'.ctx.ct.ct_mark = clast.p.ct_mark
             /\ clast'.ctx.ct.outer_id = clast.p.outer_id
    /\ (/\ clast.op = "del_miss_ctx"
        /\ clast'.op = "find_miss_ctx"
        /\ clast'.id = clast.id)
          => ~clast'.found

(* C7: miss-context round trip.  A find of mark m right after a successful  *)
(* save of (m, p) reports found with zone, state, mark value, outer-id and  *)
(* discriminant equal to p's; a find of m right after delete(m) reports     *)
(* not-found.                                                               *)
C7_MissCtxRoundTrip == [][C7_Step]_vars

(***************************************************************************)
(* Properties of the pattern compiler.                                     *)
(***************************************************************************)
C5_UdpMatch(match) ==
    /\ match.flow.dl_type = ETH_TYPE_IP
    /\ match.masks.dl_src = 0
    /\ match.masks.dl_dst = 0
    /\ match.masks.vlan_tci = 0
    /\ match.masks.nw_proto = UINT8_MOD - 1
    /\ match.flow.nw_proto = IPPROTO_UDP
    /\ match.masks.tp_src = OVS_BE16_MAX
    /\ match.masks.tp_dst = OVS_BE16_MAX

(* C5: pattern compiler, UDP case.  For an IPv4 match without Ethernet      *)
(* address mask and VLAN mask, protocol fully masked with value UDP and     *)
(* both ports fully masked, the items handed to the driver are exactly      *)
(* ETH, IPV4, UDP, END; the IPv4 item's protocol mask is 0 and its other    *)
(* masks, like the UDP item's, are the match's.                             *)
C5_UdpPattern ==
    (cres.fn = "add_flow" /\ C5_UdpMatch(cmatch))
      => /\ cres.r.ret = 0
         /\ [i \in DOMAIN cres.r.items |-> cres.r.items[i].type] =
                <<"ETH", "IPV4", "UDP", "END">>
         /\ cres.r.items[1].mask = "NULL"
         /\ cres.r.items[2].mask =
                [type_of_service |-> cmatch.masks.nw_tos,
                 time_to_live |-> cmatch.masks.nw_ttl,
                 next_proto_id |-> 0,
                 src_addr |-> cmatch.masks.nw_src,
                 dst_addr |-> cmatch.masks.nw_dst]
         /\ cres.r.items[2].spec.next_proto_id = IPPROTO_UDP
         /\ cres.r.items[3].mask =
                [src_port |-> cmatch.masks.tp_src,
                 dst_port |-> cmatch.masks.tp_dst]
         /\ cres.r.items[4].mask = "NULL"

(* the UDP match, with type-of-service and source-address masks, compiled *)
C5_Witness ==
    /\ cres.fn = "add_flow"
    /\ C5_UdpMatch(cmatch)
    /\ cmatch.masks.nw_tos # 0
    /\ cmatch.masks.nw_src # 0
    /\ Len(cres.r.items) = 4

C6_UnsupportedL4(match) ==
    /\ ResolvedProto(match) \notin
           {IPPROTO_ICMP, IPPROTO_UDP, IPPROTO_SCTP, IPPROTO_TCP}
    /\ \/ match.masks.tp_src # 0
       \/ match.masks.tp_dst # 0
       \/ match.masks.tcp_flags # 0

(* C6: pattern compiler, unsupported L4.  When the resolved protocol is     *)
(* none of ICMP, UDP, SCTP, TCP and the source-port, destination-port or    *)
(* TCP-flags mask is non-zero, add_flow_patterns and the pattern build of   *)
(* add_flow both fail.                                                      *)
C6_UnsupportedL4Fails ==
    (cres.fn # "none" /\ C6_UnsupportedL4(cmatch)) => cres.r.ret # 0

(* a GRE match that constrains only the TCP flags was refused *)
C6_Witness ==
    /\ cres.fn = "add_flow_patterns"
    /\ cmatch.flow.dl_type = ETH_TYPE_IP
    /\ ResolvedProto(cmatch) = 47
    /\ cmatch.masks.tp_src = 0
    /\ cmatch.masks.tp_dst = 0
    /\ cmatch.masks.tcp_flags # 0
    /\ cres.r.ret = -1

(***************************************************************************)
(* The flow lifecycle (SpecFlow).                                          *)
(***************************************************************************)
IsPut(op) == op \in {"flow_put", "vport_flow_put"}

(* the ports whose driver created the handles that ufid's identity in port *)
(* p records                                                               *)
RecordedOn(p, ufid) ==
    LET data == port_map[p].ufid_to_rte[ufid].rte_flow_data
    IN [i \in DOMAIN data |->
           (CHOOSE f \in rte_flows : f.flow = data[i].flow).netdev.id]

(* C1: a successful flow_put of a validated match for a ufid that had no   *)
(* identity, followed immediately by flow_del of that ufid, leaves the     *)
(* pools' allocation counts, the number of identities, the number of       *)
(* ufid -> port entries and the driver's set of live flows as they were    *)
(* before the put.                                                         *)
C1_PutDelRestores ==
    (/\ last.op = "flow_del"
     /\ last.prev.op = "flow_put"
     /\ last.prev.ufid = last.ufid
     /\ last.prev.valid
     /\ last.prev.fresh
     /\ last.prev.ret = 0)
        => Snapshot = last.prev.pre

(* C2: in a flow_put for a ufid that has an identity with recorded flows,  *)
(* whatever ingress port the new match names, every recorded flow is       *)
(* passed to the driver's destroy before the first create of the call.     *)
C2_OldDestroyedBeforeCreate ==
    IsPut(last.op) =>
        \A j \in DOMAIN last.log :
            last.log[j].call = "create" =>
                \A h \in last.old :
                    \E i \in 1..(j - 1) :
                        /\ last.log[i].call = "destroy"
                        /\ last.log[i].flow = h

(* C8: a tunnel-port flow_put that reaches the loop over two or more       *)
(* uplink ports, with the driver refusing both flows on a non-empty strict *)
(* subset of them, returns 0 and records exactly one flow for each other   *)
(* uplink and none for the refusing ones.                                  *)
C8_PartialFanOutSucceeds ==
    (/\ last.op = "vport_flow_put"
     /\ last.valid
     /\ Cardinality(last.uplinks) >= 2
     /\ last.rejected # {}
     /\ last.rejected # last.uplinks)
        => /\ last.ret = 0
           /\ last.ufid \in DOMAIN port_map[last.port].ufid_to_rte
           /\ \A p \in last.uplinks :
                  Cardinality({i \in DOMAIN RecordedOn(last.port, last.ufid) :
                                  RecordedOn(last.port, last.ufid)[i] = p})
                      = IF p \in last.rejected THEN 0 ELSE 1

(* C9: a tunnel-port flow_put that reaches the loop over the uplink ports  *)
(* returns a failure status exactly when the driver refused both flows on  *)
(* every uplink port.                                                      *)
C9_TotalFanOutFailureReported ==
    (/\ last.op = "vport_flow_put"
     /\ last.valid
     /\ last.uplinks # {})
        => (last.ret # 0 <=> last.rejected = last.uplinks)

(* C10: a flow_put for a ufid without identity that returns a failure      *)
(* status leaves no identity and no ufid -> port entry for the ufid, and   *)
(* no flow live at the driver that was not live before.                    *)
C10_FailedPutAtomic ==
    (/\ IsPut(last.op)
     /\ last.fresh
     /\ last.ret # 0)
        => /\ last.ufid \notin DOMAIN ufid_to_portid_map
           /\ \A e \in RegEntries(port_map) : e[2] # last.ufid
           /\ FlowIds(rte_flows) = last.pre.live

(* the registries, the pools and the driver's flows *)
ProviderState ==
    <<port_map, mark_to_rte_port, dpdk_phy_ports_amount, ufid_to_portid_map,
      rte_flows, tunvars, hwvars, missvars>>

(* C11: a flow_del for a ufid without ufid -> port entry, and a flow_put   *)
(* through either entry point whose match names an ingress port that is    *)
(* not in port_map, returns a non-zero status and leaves the registries,   *)
(* the pools and the driver's live flows as they were.                     *)
C11_Step ==
    (\/ last'.op = "flow_del" /\ last'.ufid \notin DOMAIN ufid_to_portid_map
     \/ IsPut(last'.op) /\ last'.port \notin DOMAIN port_map)
        => /\ last'.ret # 0
           /\ UNCHANGED ProviderState

\* C11: every flow_del of a flow with no entry, and every flow_put on an
\* ingress port that is not registered, returns non-zero and changes nothing.
C11_NotFoundNoChange == [][C11_Step]_vars

(* C12: a flow_put, through either entry point, whose match carries a      *)
(* non-zero mask on a refused field or a non-zero fragmentation value      *)
(* under its mask returns a non-zero status, and the driver's create is    *)
(* not called during it.                                                   *)
C12_DenyListRefused ==
    (IsPut(last.op) /\ last.denied)
        => /\ last.ret # 0
           /\ \A j \in DOMAIN last.log : last.log[j].call # "create"

(* a refused match on a registered ingress port, with uplink ports there   *)
(* to install on                                                           *)
C12_Witness ==
    /\ IsPut(last.op)
    /\ last.denied
    /\ last.port \in DOMAIN port_map
    /\ UplinkPorts(port_map) # {}
    /\ last.ret # 0

(* C13: a port_add that repeats the port_add just before it (same          *)
(* datapath port number, same netdev type) leaves port_map,                *)
(* dpdk_phy_ports_amount and mark_to_rte_port as the first one left them.  *)
C13_Step ==
    (/\ last.op = "port_add"
     /\ last'.op = "port_add"
     /\ last'.port = last.port
     /\ last'.kind = last.kind)
        => UNCHANGED <<port_map, dpdk_phy_ports_amount, mark_to_rte_port>>

\* C13: every port_add of a port that is already registered with the same
\* kind leaves the registry, the physical-port counter and the mark index alone.
C13_PortAddIdempotent == [][C13_Step]_vars

(* C14: a port_del of a port that is in port_map passes every flow of the  *)
(* port's default_rte_flow slots to the driver's destroy and takes the     *)
(* port out of port_map; it lowers dpdk_phy_ports_amount by one when the   *)
(* port is of type DPDK and leaves no node for the port in                 *)
(* mark_to_rte_port when it is of type VXLAN.                              *)
C14_Step ==
    (last'.op = "port_del" /\ last'.port \in DOMAIN port_map)
        => LET rte_port == port_map[last'.port]
           IN /\ \A i \in DOMAIN rte_port.default_rte_flow :
                     \E j \in DOMAIN last'.log :
                         /\ last'.log[j].call = "destroy"
                         /\ last'.log[j].flow = rte_port.default_rte_flow[i]
              /\ last'.port \notin DOMAIN port_map'
              /\ rte_port.rte_port_type = "DPDK"
                     => dpdk_phy_ports_amount' = dpdk_phy_ports_amount - 1
              /\ rte_port.rte_port_type = "VXLAN"
                     => \A k \in DOMAIN mark_to_rte_port' :
                            mark_to_rte_port'[k] # last'.port

\* C14: every successful port_del, whatever the port's kind, leaves no default
\* flow, registry entry, counted physical port or mark index entry of the port.
C14_PortDelReleases == [][C14_Step]_vars

(***************************************************************************)
(* One struct ufid_hw_offload on its own (SpecIdent): allocated with a     *)
(* capacity, offered the flows the driver creates, freed.                  *)
(***************************************************************************)
MaxFlows == 2           \* max_flows of the identity allocated

IdentNetdevs == {Netdev(p, "dpdk") : p \in 1..2}

IdentKept ==
    UNCHANGED <<patvars, tunvars, hwvars, missvars, clast, port_map,
                mark_to_rte_port, dpdk_phy_ports_amount, ufid_to_portid_map,
                pre_rd, miss_rd, miss_rcu>>

(* netdev_rte_port_ufid_hw_offload_alloc *)
IdentAlloc ==
    /\ ident = NoIdent
    /\ ncalls < MaxCalls + MaxFlows
    /\ ncalls' = ncalls + 1
    /\ \E max_flows \in 1..MaxFlows, ufid \in Ufids :
          /\ ident' = netdev_rte_port_ufid_hw_offload_alloc(max_flows, ufid)
          /\ last' = Call("ident_alloc", ufid, 0)
    /\ UNCHANGED rte_flows
    /\ IdentKept

(* a flow the driver created on netdev is handed to                        *)
(* ufid_hw_offload_add_rte_flow                                            *)
IdentOffered(netdev, c) ==
    LET r == ufid_hw_offload_add_rte_flow(ident, c.d, c.flow, netdev)
    IN /\ ident' = r.hw_offload
       /\ rte_flows' = r.d.flows
       /\ last' = [Call("ident_offer", ident.ufid, c.flow) EXCEPT
                       !.log = r.d.log]

IdentOffer ==
    /\ ident # NoIdent
    /\ ncalls < MaxCalls + MaxFlows
    /\ ncalls' = ncalls + 1
    /\ Cardinality(rte_flows) < MaxHandles
    /\ \E netdev \in IdentNetdevs :
          IdentOffered(netdev,
                       netdev_dpdk_rte_flow_create(
                           Driver0, netdev, FlowAttr(0, 0, 1), EndItems,
                           add_flow_action(<<>>, "END", 0), TRUE, "flow",
                           ident.ufid))
    /\ IdentKept

(* netdev_rte_port_ufid_hw_offload_free *)
IdentFree ==
    /\ ident # NoIdent
    /\ ncalls < MaxCalls + MaxFlows
    /\ ncalls' = ncalls + 1
    /\ rte_flows' = netdev_rte_port_ufid_hw_offload_free(Driver0, ident,
                                                         {}).flows
    /\ last' = [Call("ident_free", ident.ufid, 0) EXCEPT
                   !.log = netdev_rte_port_ufid_hw_offload_free(
                               Driver0, ident, {}).log]
    /\ ident' = NoIdent
    /\ IdentKept

NextIdent == IdentAlloc \/ IdentOffer \/ IdentFree

SpecIdent == InitPool /\ [][NextIdent]_vars

(* the fill count of identity h is within its capacity *)
C15_Within(h) == 0 <= h.curr_idx /\ h.curr_idx <= h.max_flows

C15_Inv ==
    /\ ident # NoIdent => C15_Within(ident)
    /\ \A e \in RegEntries(port_map) :
           C15_Within(port_map[e[1]].ufid_to_rte[e[2]])

(* a flow offered to an identity that is full: last'.port is the flow *)
C15_OfferStep ==
    (last'.op = "ident_offer" /\ ident.curr_idx = ident.max_flows)
        => /\ ident' = ident
           /\ \E j \in DOMAIN last'.log :
                  /\ last'.log[j].call = "destroy"
                  /\ last'.log[j].flow = last'.port
           /\ last'.port \notin FlowIds(rte_flows')

(* C15: the fill count of every struct ufid_hw_offload stays between 0 and *)
(* its max_flows, and a flow offered to an identity whose fill count       *)
(* equals max_flows is passed to the driver's destroy during the call and  *)
(* is not recorded.                                                        *)
C15_FillWithinCapacity == [](C15_Inv) /\ [][C15_OfferStep]_vars

(* a flow has been offered to a full identity, and destroyed *)
C15_Witness ==
    /\ last.op = "ident_offer"
    /\ ident.curr_idx = ident.max_flows
    /\ \A i \in DOMAIN ident.rte_flow_data :
           ident.rte_flow_data[i].flow # last.port
    /\ \E j \in DOMAIN last.log : last.log[j].call = "destroy"

(* C16: ufid_to_portid_map holds an entry for a ufid exactly when the      *)
(* ufid_to_rte map of some port in port_map holds an identity for it, and  *)
(* the entry names the port that holds it.                                 *)
C16_MapMatchesRegistry ==
    \A u \in Ufids :
        /\ u \in DOMAIN ufid_to_portid_map
               <=> \E e \in RegEntries(port_map) : e[2] = u
        /\ \A e \in RegEntries(port_map) :
               e[2] = u => /\ u \in DOMAIN ufid_to_portid_map
                           /\ ufid_to_portid_map[u] = e[1]

(* the miss-context store with the packet-processing thread *)
NextMissRd ==
    \/ MissSaveCt
    \/ MissDel
    \/ MissRdBegin
    \/ MissRdStep
    \/ MissRdQuiesce

SpecMissRd == InitPool /\ [][NextMissRd]_vars

(* the nodes linked into either map under mark *)
C17_Linked(mark) ==
    {mark_to_ct_ctx[i] : i \in MissMatches(mark_to_ct_ctx, mark)}
        \cup {mpi_mark_to_ct_ctx[i] :
                 i \in MissMatches(mpi_mark_to_ct_ctx, mark)}

(* a delete of a mark that has a context removes one: the node is no       *)
(* longer in the map the lookup walks and is handed to the deferred free   *)
C17_DelStep ==
    (clast'.op = "del_miss_ctx" /\ C17_Linked(clast'.id) # {})
        => \E n \in C17_Linked(clast'.id) :
               /\ \A i \in DOMAIN mpi_mark_to_ct_ctx' :
                      mpi_mark_to_ct_ctx'[i] # n
               /\ n \in miss_rcu'.postponed

PreMarks == {VXLAN_EXCEPTION_MARK, VXLAN_EXCEPTION_MARK + 1}

(* the nodes CMAP_FOR_EACH_WITH_HASH visits for mark: every node of        *)
(* mark_to_rte_port is linked under the hash of VXLAN_EXCEPTION_MARK       *)
PreChain(mark) ==
    IF mark = VXLAN_EXCEPTION_MARK
    THEN {mark_to_rte_port[i] : i \in DOMAIN mark_to_rte_port}
    ELSE {}

PreKept ==
    UNCHANGED <<patvars, tunvars, hwvars, missvars, clast, lifevars, ident,
                miss_rd, miss_rcu>>

(* the cursor is loaded: NULL (ptr 0) or a node of the chain; a node whose *)
(* port is no longer in port_map belongs to an entry port_del has freed    *)
PreBegin ==
    /\ pre_rd.pc = "idle"
    /\ \E mark \in PreMarks :
          \/ /\ PreChain(mark) = {}
             /\ pre_rd' = [PreIdle EXCEPT !.pc = "walk", !.mark = mark]
          \/ \E p \in PreChain(mark) :
                pre_rd' = [PreIdle EXCEPT !.pc = "walk", !.mark = mark,
                                          !.ptr = p,
                                          !.freed = p \notin DOMAIN port_map]
    /\ PreKept

(* rte_port->exception_mark is read; then netdev_rte_port_preprocess reads *)
(* rte_port->rte_port_type, ->netdev and ->dp_port, and the thread returns *)
PreStep ==
    /\ pre_rd.pc \in {"walk", "match"}
    /\ pre_rd' = IF pre_rd.ptr = 0 \/ pre_rd.pc = "match" THEN PreIdle
                 ELSE [pre_rd EXCEPT !.pc = "match", !.deref = TRUE]
    /\ PreKept

NextPre == PortAdd \/ PortDel \/ PreBegin \/ PreStep

SpecPre == InitPool /\ [][NextPre]_vars

(* C18: the thread in netdev_rte_offload_preprocess never reads a field of *)
(* a port entry that port_del has passed to free().                        *)
C18_NoReadOfFreedPort == ~(pre_rd.deref /\ pre_rd.freed)

(* log entry e is a create of the default flow (priority 1, not transfer)  *)
(* that the driver refused                                                 *)
C19_DefaultRefused(e) ==
    /\ e.call = "create"
    /\ e.flow = 0
    /\ e.attr.priority = 1
    /\ e.attr.transfer = 0

(* C19: in a flow_put on a physical port in which the driver created the   *)
(* flow of a tunnel-pop request and then refused the default flow, the     *)
(* created flow is passed to the driver's destroy, the ufid's identity     *)
(* records no flow and the call returns a non-zero status.                 *)
C19_DefaultFlowRollback ==
    \A j \in DOMAIN last.log :
        (/\ last.op = "flow_put"
         /\ j > 1
         /\ C19_DefaultRefused(last.log[j])
         /\ last.log[j - 1].call = "create"
         /\ last.log[j - 1].flow # 0)
            => /\ last.ret # 0
               /\ \E k \in DOMAIN last.log :
                      /\ k > j
                      /\ last.log[k].call = "destroy"
                      /\ last.log[k].flow = last.log[j - 1].flow
               /\ RecordedFlows(port_map, last.ufid) = {}

(* C20: a request for the table id of a logical id that has a live entry   *)
(* returns that entry's hw_id, raises its ref_cnt by one, takes no id from *)
(* the pool and links no further node; a request for a logical id without  *)
(* entry takes a free id from the pool and links a node for it with        *)
(* ref_cnt 1.                                                              *)
C20_Step ==
    \A is_port \in BOOLEAN :
        clast'.op = C4_GetOp(is_port)
          => LET map == HwMap(is_port)
                 map1 == IF is_port THEN port_id_to_tbl_id_map'
                         ELSE recirc_id_to_tbl_id_map'
                 live == C4_Live(map, clast'.id, is_port)
             IN IF live # {}
                THEN /\ \E i \in live :
                           /\ clast'.ret = map[i].hw_id
                           /\ map1 = [map EXCEPT ![i].ref_cnt = @ + 1]
                     /\ hw_pool'.ids = netdev_dpdk_hw_id_init.ids
                ELSE /\ clast'.ret \in id_pool_free_ids(netdev_dpdk_hw_id_init)
                     /\ hw_pool'.ids
                            = netdev_dpdk_hw_id_init.ids \cup {clast'.ret}
                     /\ \E i \in DOMAIN map1 :
                           /\ map1[i].id = clast'.id
                           /\ map1[i].hw_id = clast'.ret
                           /\ map1[i].ref_cnt = 1

\* C20: every successful table-id request hands out the id already mapped to
\* the key, or maps a fresh id to it with one reference.
C20_TableIdReuse == [][C20_Step]_vars

(***************************************************************************)
(* The table-id nodes on their own (SpecHwId): netdev_dpdk_alloc_hw_id,    *)
(* netdev_dpdk_get_hw_id and netdev_dpdk_put_hw_id called directly, as the *)
(* hit and miss paths of the table-id requests intend to call them.        *)
(***************************************************************************)
MaxHwNodes == 2         \* nodes linked into the two table-id maps

(* netdev_dpdk_hw_id_init, then netdev_dpdk_alloc_hw_id(id, is_port) *)
HwIdAlloc ==
    /\ \E id \in LogicalIds, is_port \in BOOLEAN :
          /\ Len(recirc_id_to_tbl_id_map) + Len(port_id_to_tbl_id_map)
                 < MaxHwNodes
          /\ netdev_dpdk_alloc_hw_id("alloc_hw_id", HwMap(is_port),
                                     netdev_dpdk_hw_id_init, id, is_port)
    /\ UNCHANGED <<patvars, tunvars, missvars, lifevars, auxvars>>

(* netdev_dpdk_get_hw_id(id, &hw_id, is_port): a matching node gains a     *)
(* reference and 0 is returned; -1 when no node matches                    *)
HwIdGet ==
    /\ \E id \in LogicalIds, is_port \in BOOLEAN :
          LET map == HwMap(is_port)
          IN IF netdev_dpdk_get_hw_id(id, is_port) # 0
             THEN /\ UNCHANGED hwvars
                  /\ clast' = HwCall("get_hw_id", id, -1)
             ELSE \E i \in HwMatches(map, id, is_port) :
                     /\ map[i].ref_cnt < MaxRef
                     /\ hw_pool' = hw_pool
                     /\ HwSetMap(is_port, [map EXCEPT ![i].ref_cnt = @ + 1])
                     /\ clast' = HwCall("get_hw_id", id, 0)
    /\ UNCHANGED <<patvars, tunvars, missvars, lifevars, auxvars>>

NextHwId == HwIdAlloc \/ HwIdGet \/ HwPutRecirc \/ HwPutPort

SpecHwId == InitPool /\ [][NextHwId]_vars

(* every node linked into a table-id map is referenced and holds an id     *)
(* that is allocated in the pool                                           *)
C21_Inv ==
    \A is_port \in BOOLEAN :
        \A i \in DOMAIN HwMap(is_port) :
            /\ HwMap(is_port)[i].ref_cnt > 0
            /\ HwMap(is_port)[i].hw_id \in hw_pool.ids

(* a put that meets a node holding its last reference: clast'.id is the    *)
(* logical id                                                              *)
C21_PutStep ==
    \A is_port \in BOOLEAN :
        (/\ clast'.op = (IF is_port THEN "put_port_id_hw_id"
                         ELSE "put_recirc_id_hw_id")
         /\ \E i \in HwMatches(HwMap(is_port), clast'.id, is_port) :
                HwMap(is_port)[i].ref_cnt = 1
         /\ \A i \in HwMatches(HwMap(is_port), clast'.id, is_port) :
                HwMap(is_port)[i].ref_cnt = 1)
            => /\ Len(HwMap(is_port)') = Len(HwMap(is_port)) - 1
               /\ HwMatches(HwMap(is_port)', clast'.id, is_port)
                      \subseteq {i \in DOMAIN HwMap(is_port)' :
                                     HwMap(is_port)'[i].ref_cnt > 0}
               /\ Cardinality(hw_pool'.ids) = Cardinality(hw_pool.ids) - 1

(* C21: every TableIdEntry reachable through the recirculation-id index or *)
(* the port-id index has a reference count above zero and holds a hardware *)
(* id that is allocated in the pool; a put that drops a count to zero      *)
(* returns the id to the pool and unlinks the entry from its index.        *)
C21_TableIdEntriesLive == [](C21_Inv) /\ [][C21_PutStep]_vars

(* the two outer-id indexes describe the same relation, one node per       *)
(* tuple and per outer-id, every id allocated and within the pool's range  *)
C22_Inv ==
    /\ \A n \in tun_to_outer_id_map :
          /\ netdev_dpdk_tun_data_find(n.outer_id) =
                 {[outer_id |-> n.outer_id, ip_dst |-> n.ip_dst,
                   ip_src |-> n.ip_src, tun_id |-> n.tun_id]}
          /\ n.ref_count > 0
          /\ n.outer_id \in outer_pool.ids
          /\ n.outer_id \in
                 OUTER_POOL_BASE .. (OUTER_POOL_BASE + MAX_OUTER_ID - 1)
    /\ \A o \in outer_id_to_tun_map :
          \E n \in TunNodes(TunKey(o)) : n.outer_id = o.outer_id
    /\ \A n1, n2 \in tun_to_outer_id_map :
          (TunKey(n1) = TunKey(n2) \/ n1.outer_id = n2.outer_id) => n1 = n2

(* the release of a tuple's last reference *)
C22_LastUnrefStep ==
    \A n \in tun_to_outer_id_map :
        (C3_UnrefStep(TunKey(n)) /\ n.ref_count = 1)
            => /\ n.outer_id \in id_pool_free_ids(outer_pool')
               /\ {m \in tun_to_outer_id_map' : TunKey(m) = TunKey(n)} = {}
               /\ {o \in outer_id_to_tun_map' :
                       o.outer_id = n.outer_id \/ TunKey(o) = TunKey(n)} = {}

(* C22: after any sequence of outer-id acquisitions and releases the       *)
(* tuple -> outer-id index and the outer-id -> tuple index describe the    *)
(* same relation, distinct live tuples hold distinct outer-ids of the      *)
(* pool's range, and the release of a tuple's last reference returns its   *)
(* outer-id to the pool and removes both index entries.                    *)
C22_IndexesAgree == [](C22_Inv) /\ [][C22_LastUnrefStep]_vars

(* a release has just removed a tuple while another tuple stays live and   *)
(* the pool has an id to hand out again                                    *)
C22_Witness ==
    /\ clast.op = "tun_unref"
    /\ clast.found
    /\ TunNodes(clast.t) = {}
    /\ Cardinality(tun_to_outer_id_map) = 1
    /\ Cardinality(outer_id_to_tun_map) = 1
    /\ Cardinality(id_pool_free_ids(outer_pool)) = MAX_OUTER_ID - 1

(* log entry e is a create of a default flow (priority 1, not transfer) *)
C23_DefaultCreate(e) ==
    /\ e.call = "create"
    /\ e.attr.priority = 1
    /\ e.attr.transfer = 0

(* log entry e is the accepted create of a tunnel-pop flow: a transfer     *)
(* flow of priority 0 that jumps to the vport's table                      *)
C23_TunnelPopCreated(e) ==
    /\ e.call = "create"
    /\ e.flow # 0
    /\ e.attr.priority = 0
    /\ e.attr.transfer = 1
    /\ \E k \in DOMAIN e.actions : e.actions[k] = "JUMP"

(* at most one default flow is live at the driver per port and table *)
C23_OnePerSlot ==
    \A f1, f2 \in rte_flows :
        (/\ f1.kind = "default" /\ f2.kind = "default"
         /\ f1.netdev.id = f2.netdev.id
         /\ f1.attr.group = f2.attr.group)
            => f1 = f2

(* a default flow is asked of the driver only while its slot is empty *)
C23_CreateStep ==
    last'.op = "flow_put"
        => \A j \in DOMAIN last'.log :
               C23_DefaultCreate(last'.log[j])
                   => /\ last'.port \in DOMAIN port_map
                      /\ last'.log[j].attr.group \notin
                             DOMAIN port_map[last'.port].default_rte_flow

(* after a successful tunnel-pop flow_put the slot holds a live default    *)
(* flow of the ingress port                                                *)
C23_SlotStep ==
    (/\ last'.op = "flow_put"
     /\ last'.ret = 0
     /\ \E j \in DOMAIN last'.log : C23_TunnelPopCreated(last'.log[j]))
        => \E g \in DOMAIN port_map'[last'.port].default_rte_flow :
               \E f \in rte_flows' :
                   /\ f.flow = port_map'[last'.port].default_rte_flow[g]
                   /\ f.kind = "default"
                   /\ f.attr.group = g
                   /\ f.netdev.id = last'.port

(* C23: across tunnel-pop flow_put calls at most one default catch-all     *)
(* flow is live at the driver per (ingress port, destination table), the   *)
(* driver is asked for the default flow of a pair only while the pair's    *)
(* slot is empty, and after a tunnel-pop flow_put has returned success the *)
(* slot of its pair holds a live default-flow handle.                      *)
C23_DefaultFlowUnique ==
    [](C23_OnePerSlot) /\ [][C23_CreateStep /\ C23_SlotStep]_vars

(* each map of the miss-context store links at most one node per mark *)
C26_OnePerMark ==
    \A mark \in Marks :
        /\ Cardinality(MissMatches(mark_to_ct_ctx, mark)) <= 1
        /\ Cardinality(MissMatches(mpi_mark_to_ct_ctx, mark)) <= 1

(* node `data` carries the discriminant and the payload of p *)
C26_Holds(data, p) ==
    /\ data.type = MARK_PREPROCESS_CT
    /\ data.ct.ct_mark = p.ct_mark
    /\ data.ct.ct_zone = p.ct_zone
    /\ data.ct.ct_state = p.ct_state
    /\ data.ct.outer_id = p.outer_id
    /\ data.ct.rte_flow[CtDirIdx(p.reply)] = p.flow

(* a save of mark m right after a save of m: clast.p is p1, clast'.p is p2 *)
C26_SaveStep ==
    (/\ clast.op = "save_ct_miss_ctx"
     /\ clast'.op = "save_ct_miss_ctx"
     /\ clast'.id = clast.id)
        => /\ Cardinality(MissMatches(mark_to_ct_ctx', clast'.id)) = 1
           /\ \A i \in MissMatches(mark_to_ct_ctx', clast'.id) :
                  C26_Holds(mark_to_ct_ctx'[i], clast'.p)

(* C26: last-writer-wins save.  After save(m, p1) followed by save(m, p2)  *)
(* the store holds exactly one context for m, with the discriminant and    *)
(* the payload of p2; in every reachable state the store holds at most one *)
(* context per mark.                                                       *)
C26_LastWriterWins == [](C26_OnePerMark) /\ [][C26_SaveStep]_vars

(***************************************************************************)
(* netdev_dpdk_offload_put_handle and netdev_dpdk_offload_del_handle.  One *)
(* call makes several pool and miss-context calls in a row: these are      *)
(* taken as functions of the record h of the stores they work on, each     *)
(* giving the set of its possible outcomes.                                *)
(***************************************************************************)
HandleState ==
    [tun |-> tun_to_outer_id_map, rev |-> outer_id_to_tun_map,
     opool |-> outer_pool, recirc |-> recirc_id_to_tbl_id_map,
     port |-> port_id_to_tbl_id_map, hpool |-> hw_pool,
     ctx |-> mark_to_ct_ctx, mpi |-> mpi_mark_to_ct_ctx, rcu |-> miss_rcu]

(* netdev_dpdk_tun_id_get_ref on h: the outcomes [h, ret] *)
OnTunGetRef(h, t) ==
    LET nodes == {n \in h.tun : TunKey(n) = t}
        pool == IF h.opool.created THEN h.opool
                ELSE id_pool_create(OUTER_POOL_BASE, MAX_OUTER_ID)
    IN
    IF nodes # {}
    THEN {[h |-> [h EXCEPT !.tun = (@ \ {n}) \cup
                               {[n EXCEPT !.ref_count = n.ref_count + 1]}],
           ret |-> n.outer_id] : n \in {m \in nodes : m.ref_count < MaxRef}}
    ELSE IF id_pool_free_ids(pool) = {}
    THEN {[h |-> [h EXCEPT !.opool = pool], ret |-> INVALID_OUTER_ID]}
    ELSE {[h |-> [h EXCEPT
                     !.opool = id_pool_take(pool, outer_id),
                     !.tun = @ \cup {[ip_dst |-> t.ip_dst, ip_src |-> t.ip_src,
                                      tun_id |-> t.tun_id,
                                      outer_id |-> outer_id, ref_count |-> 1]},
                     !.rev = netdev_dpdk_tun_data_insert(@, outer_id, t)],
           ret |-> outer_id] : outer_id \in id_pool_free_ids(pool)}

(* netdev_dpdk_tun_outer_id_unref on h: the outcomes h *)
OnTunUnref(h, t) ==
    LET nodes == {n \in h.tun : TunKey(n) = t}
    IN
    IF nodes = {} THEN {h}
    ELSE {IF TunLastRef(n.ref_count - 1)
          THEN [h EXCEPT !.rev = netdev_dpdk_tun_data_del(@, n.outer_id),
                         !.tun = @ \ {n},
                         !.opool = id_pool_free_id(@, n.outer_id)]
          ELSE [h EXCEPT !.tun = (@ \ {n}) \cup
                                    {[n EXCEPT !.ref_count = n.ref_count - 1]}]
          : n \in nodes}

(* netdev_dpdk_outer_id_unref on h *)
OnOuterIdUnref(h, outer_id) ==
    LET found == {n \in h.rev : n.outer_id = outer_id}
    IN IF found = {} THEN {h}
       ELSE UNION {OnTunUnref(h, TunKey(n)) : n \in found}

OnHwMap(h, is_port) == IF is_port THEN h.port ELSE h.recirc

OnHwSetMap(h, is_port, map) ==
    IF is_port THEN [h EXCEPT !.port = map] ELSE [h EXCEPT !.recirc = map]

(* netdev_dpdk_alloc_hw_id on h: the outcomes [h, ret] *)
OnAllocHwId(h, id, is_port) ==
    IF id_pool_free_ids(h.hpool) = {} THEN {[h |-> h, ret |-> INVALID_HW_ID]}
    ELSE {[h |-> OnHwSetMap([h EXCEPT !.hpool = id_pool_take(@, hw_id)],
                            is_port,
                            Append(OnHwMap(h, is_port),
                                   [id |-> id, hw_id |-> hw_id,
                                    is_port |-> is_port, ref_cnt |-> 1,
                                    freed |-> FALSE])),
           ret |-> hw_id] : hw_id \in id_pool_free_ids(h.hpool)}

(* netdev_dpdk_get_recirc_id_hw_id / netdev_dpdk_get_port_id_hw_id on h:   *)
(* the outcomes [h, ret, hw_id], hw_id being the caller's *hw_id after the *)
(* call and hw_in before it                                                *)
OnGetXHwId(h0, id, hw_in, is_port) ==
    LET h == [h0 EXCEPT !.hpool = IF @.created THEN @
                                  ELSE id_pool_create(HW_POOL_BASE,
                                                      MAX_HW_TABLE)]
        map == OnHwMap(h, is_port)
        hits == HwMatches(map, id, is_port)
    IN
    IF hits = {}
    THEN (* netdev_dpdk_get_hw_id returned -1 and left *hw_id alone *)
         IF HwReturnCallerValue(-1)
         THEN {[h |-> h, ret |-> hw_in, hw_id |-> hw_in]}
         ELSE {[h |-> r.h, ret |-> r.ret, hw_id |-> hw_in] :
                  r \in OnAllocHwId(h, id, is_port)}
    ELSE (* it returned 0, took a reference and set *hw_id *)
         UNION {LET h1 == OnHwSetMap(h, is_port,
                                     [map EXCEPT ![i].ref_cnt = @ + 1])
                IN IF HwReturnCallerValue(0)
                   THEN {[h |-> h1, ret |-> map[i].hw_id,
                          hw_id |-> map[i].hw_id]}
                   ELSE {[h |-> r.h, ret |-> r.ret, hw_id |-> map[i].hw_id] :
                            r \in OnAllocHwId(h1, id, is_port)}
                : i \in {j \in hits : map[j].ref_cnt < MaxRef}}

(* netdev_dpdk_put_hw_id on h: the outcomes h *)
OnPutHwId(h, id, is_port) ==
    LET map == OnHwMap(h, is_port)
        hits == HwMatches(map, id, is_port)
    IN
    IF hits = {} THEN {h}
    ELSE {IF map[i].ref_cnt - 1 = 0
          THEN OnHwSetMap([h EXCEPT !.hpool =
                                        id_pool_free_id(@, map[i].hw_id)],
                          is_port,
                          [map EXCEPT ![i].ref_cnt = 0, ![i].freed = TRUE])
          ELSE OnHwSetMap(h, is_port, [map EXCEPT ![i].ref_cnt = @ - 1])
          : i \in {j \in hits : map[j].ref_cnt >= 0}}

(* netdev_dpdk_get_sw_id_from_hw_id: hw_id_to_sw is zeroed by              *)
(* netdev_dpdk_hw_id_init and written nowhere                              *)
netdev_dpdk_get_sw_id_from_hw_id(hw_id) == 0

(* netdev_dpdk_get_flow_miss_ctx on h: the outcomes [h, map, i], the node  *)
(* returned being number i of map "mpi" (found by the lookup) or of map    *)
(* "ctx" (allocated and linked)                                            *)
OnGetFlowMissCtx(h, mark) ==
    IF MissMatches(h.mpi, mark) # {}
    THEN {[h |-> h, map |-> "mpi", i |-> i] : i \in MissMatches(h.mpi, mark)}
    ELSE {[h |-> [h EXCEPT !.ctx = Append(@, ZeroMissCtx)], map |-> "ctx",
           i |-> Len(h.ctx) + 1]}

(* the uint16_t outer_id of the union's flow member *)
FlowCtxOuterId(outer_id) == outer_id % 65536

(* netdev_dpdk_save_flow_miss_ctx on h: the outcomes [h, ret] *)
OnSaveFlowMissCtx(h, mark, hw_id, is_port, outer_id, in_port, has_ct) ==
    {[h |-> [g.h EXCEPT ![g.map][g.i] =
                [@ EXCEPT !.type = IF has_ct THEN MARK_PREPROCESS_FLOW_CT
                                   ELSE MARK_PREPROCESS_FLOW,
                          !.mark = mark,
                          !.flow = [outer_id |-> FlowCtxOuterId(outer_id),
                                    hw_id |-> hw_id, is_port |-> is_port,
                                    in_port |-> in_port]]],
      ret |-> 0] : g \in OnGetFlowMissCtx(h, mark)}

(* netdev_dpdk_del_miss_ctx on h: the outcomes h *)
OnDelMissCtx(h, mark) ==
    IF MissMatches(h.mpi, mark) = {} THEN {h}
    ELSE UNION {LET hit == {j \in DOMAIN h.ctx : h.ctx[j] = h.mpi[i]}
                    h1 == [h EXCEPT !.rcu.postponed = @ \cup {h.mpi[i]}]
                IN IF hit = {} THEN {h1}
                   ELSE {[h1 EXCEPT !.ctx = RemoveAt(@, j)] : j \in hit}
                : i \in MissMatches(h.mpi, mark)}

MATCH_OFFLOAD_TYPE_UNDEFINED == 0
MATCH_OFFLOAD_TYPE_ROOT == 1
MATCH_OFFLOAD_TYPE_VPORT_ROOT == 2
MATCH_OFFLOAD_TYPE_RECIRC == 4
ACTION_OFFLOAD_TYPE_TNL_POP == 8
ACTION_OFFLOAD_TYPE_CT == 16
ACTION_OFFLOAD_TYPE_OUTPUT == 32

(* struct offload_item_cls_info after memset(&cls_info, 0, ...) *)
ZeroClsInfo ==
    [match |-> [recirc_id |-> 0, ip_dst |-> 0, ip_src |-> 0, tun_id |-> 0,
                type |-> 0, vport |-> FALSE, outer_id |-> 0, hw_id |-> 0],
     actions |-> [has_ct |-> FALSE, has_nat |-> FALSE, zone |-> 0,
                  recirc_id |-> 0, hw_id |-> 0, odp_port |-> 0,
                  valid |-> FALSE, type |-> 0, pop_tnl |-> FALSE]]

(* a recirculation action carrying recirc id `id` *)
NlRecircTo(id) == NlAttr("RECIRC", id, 0, <<>>)

(* netdev_dpdk_offload_fill_cls_info, the match part *)
FillClsMatch(cls, match) ==
    LET c1 == IF BitAnd(match.flow.recirc_id, match.masks.recirc_id) # 0
              THEN [cls EXCEPT !.match.recirc_id = match.flow.recirc_id]
              ELSE cls
    IN IF match_zero_wc_tunnel(match) # ZeroTunnel
       THEN [c1 EXCEPT !.match.ip_dst = match.flow.tunnel.ip_dst,
                       !.match.ip_src = match.flow.tunnel.ip_src,
                       !.match.tun_id = match.flow.tunnel.tun_id]
       ELSE c1

(* netdev_dpdk_offload_fill_cls_info, the loop over the actions from       *)
(* number i on; a CT attribute carries its zone                            *)
RECURSIVE FillClsActions(_, _, _)
FillClsActions(cls, actions, i) ==
    IF i > Len(actions) THEN cls
    ELSE LET a == actions[i]
             last_action == i = Len(actions)
         IN FillClsActions(
                IF a.type = "CT"
                THEN [cls EXCEPT !.actions.has_ct = TRUE,
                                 !.actions.zone = a.zone]
                ELSE IF a.type = "OUTPUT"
                THEN [cls EXCEPT !.actions.odp_port = a.port,
                                 !.actions.valid =
                                     IF last_action THEN @ ELSE FALSE]
                ELSE IF a.type = "RECIRC"
                THEN [cls EXCEPT !.actions.recirc_id = a.port,
                                 !.actions.valid =
                                     IF last_action THEN @ ELSE FALSE]
                ELSE IF a.type = "TUNNEL_POP"
                THEN [cls EXCEPT !.actions.pop_tnl = TRUE,
                                 !.actions.odp_port = a.port]
                ELSE cls,
                actions, i + 1)

(* netdev_dpdk_offload_classify, after fill_cls_info: the two types *)
ClassifyTypes(cls) ==
    [cls EXCEPT
        !.match.type =
            IF cls.match.recirc_id = 0
            THEN IF cls.match.vport THEN MATCH_OFFLOAD_TYPE_VPORT_ROOT
                 ELSE MATCH_OFFLOAD_TYPE_ROOT
            ELSE MATCH_OFFLOAD_TYPE_RECIRC,
        !.actions.type =
            IF cls.actions.pop_tnl THEN ACTION_OFFLOAD_TYPE_TNL_POP
            ELSE IF cls.actions.has_ct THEN ACTION_OFFLOAD_TYPE_CT
            ELSE IF cls.actions.odp_port # 0 THEN ACTION_OFFLOAD_TYPE_OUTPUT
            ELSE @]

(* netdev_dpdk_offload_classify: [ret, cls]; validate_flow returns 0 for a *)
(* match it accepts                                                        *)
netdev_dpdk_offload_classify(cls, match, actions) ==
    IF netdev_rte_offloads_validate_flow(match, FALSE) = 0
    THEN [ret |-> -1, cls |-> cls]
    ELSE LET c == FillClsActions(FillClsMatch(cls, match), actions, 1)
         IN IF c.actions.valid THEN [ret |-> -1, cls |-> c]
            ELSE [ret |-> 0, cls |-> ClassifyTypes(c)]

(* the tuple of cls_info->match *)
ClsTuple(cls) ==
    [ip_dst |-> cls.match.ip_dst, ip_src |-> cls.match.ip_src,
     tun_id |-> cls.match.tun_id]

(* netdev_dpdk_offload_add_vport_root_patterns: the outcomes [h, cls, ret] *)
netdev_dpdk_offload_add_vport_root_patterns(h, cls) ==
    {[h |-> r.h, cls |-> [cls EXCEPT !.match.outer_id = r.ret],
      ret |-> IF r.ret = INVALID_OUTER_ID THEN -1 ELSE 0] :
        r \in OnTunGetRef(h, ClsTuple(cls))}

(* netdev_dpdk_offload_add_recirc_patterns: the outcomes [h, cls, ret] *)
netdev_dpdk_offload_add_recirc_patterns(h, cls) ==
    UNION {LET c1 == [cls EXCEPT !.match.hw_id = g.hw_id]
           IN IF g.ret = INVALID_HW_ID
              THEN {[h |-> g.h, cls |-> c1, ret |-> -1]}
              ELSE IF cls.match.tun_id # 0
              THEN {[h |-> r.h, cls |-> [c1 EXCEPT !.match.outer_id = r.ret],
                     ret |-> IF r.ret = INVALID_OUTER_ID THEN -1 ELSE 0] :
                       r \in OnTunGetRef(g.h, ClsTuple(cls))}
              ELSE {[h |-> g.h, cls |-> c1, ret |-> 0]}
           : g \in OnGetXHwId(h, cls.match.recirc_id, cls.match.hw_id, FALSE)}

(* netdev_dpdk_offload_put_add_patterns: the outcomes [h, cls, ret] *)
netdev_dpdk_offload_put_add_patterns(h, cls) ==
    IF cls.match.type = MATCH_OFFLOAD_TYPE_ROOT
    THEN {[h |-> h, cls |-> cls, ret |-> 0]}
    ELSE IF cls.match.type = MATCH_OFFLOAD_TYPE_VPORT_ROOT
    THEN netdev_dpdk_offload_add_vport_root_patterns(h, cls)
    ELSE IF cls.match.type = MATCH_OFFLOAD_TYPE_RECIRC
    THEN netdev_dpdk_offload_add_recirc_patterns(h, cls)
    ELSE {[h |-> h, cls |-> cls, ret |-> -1]}

(* netdev_dpdk_offload_get_hw_id: the outcomes [h, cls, ret] *)
netdev_dpdk_offload_get_hw_id(h, cls) ==
    {[h |-> g.h, cls |-> [cls EXCEPT !.actions.hw_id = g.hw_id],
      ret |-> IF g.ret = INVALID_HW_ID THEN -1 ELSE 0] :
        g \in IF cls.actions.recirc_id # 0
              THEN OnGetXHwId(h, cls.actions.recirc_id, cls.actions.hw_id,
                              FALSE)
              ELSE OnGetXHwId(h, cls.actions.odp_port, cls.actions.hw_id,
                              TRUE)}

(* netdev_dpdk_offload_ct_actions: -1 when the table id was obtained *)
netdev_dpdk_offload_ct_actions(h, cls) ==
    {[g EXCEPT !.ret = IF g.ret = 0 THEN -1 ELSE 0] :
        g \in netdev_dpdk_offload_get_hw_id(h, cls)}

(* netdev_dpdk_offload_put_add_actions: the outcomes [h, cls, ret] *)
netdev_dpdk_offload_put_add_actions(h, cls) ==
    IF cls.actions.type = ACTION_OFFLOAD_TYPE_TNL_POP
    THEN {[h |-> h, cls |-> cls, ret |-> 0]}
    ELSE IF cls.actions.type = ACTION_OFFLOAD_TYPE_CT
    THEN netdev_dpdk_offload_ct_actions(h, cls)
    ELSE IF cls.actions.type = ACTION_OFFLOAD_TYPE_OUTPUT
    THEN {[h |-> h, cls |-> cls, ret |-> 0]}
    ELSE {[h |-> h, cls |-> cls, ret |-> -1]}

(* the label roll_back of netdev_dpdk_offload_put_handle: the outcomes h *)
PutHandleRollBack(h, cls, flow_mark) ==
    LET s1 == IF cls.match.outer_id # INVALID_OUTER_ID
              THEN OnTunUnref(h, ClsTuple(cls)) ELSE {h}
        s2 == UNION {IF cls.match.hw_id # INVALID_HW_ID
                     THEN OnPutHwId(x, cls.match.hw_id, FALSE) ELSE {x} :
                     x \in s1}
        s3 == UNION {IF cls.actions.hw_id # INVALID_HW_ID
                     THEN OnPutHwId(x, cls.actions.hw_id,
                                    cls.actions.recirc_id = 0)
                     ELSE {x} : x \in s2}
    IN UNION {OnDelMissCtx(x, flow_mark) : x \in s3}

(* after put_add_actions returned: the miss context is saved for a CT      *)
(* action, and `if (!ret) goto roll_back`                                  *)
PutHandleSave(a, match, flow_mark) ==
    LET saved == IF a.cls.actions.type = ACTION_OFFLOAD_TYPE_CT
                 THEN OnSaveFlowMissCtx(a.h, flow_mark, a.cls.actions.hw_id,
                                        a.cls.actions.recirc_id = 0,
                                        a.cls.match.outer_id,
                                        match.flow.in_port, TRUE)
                 ELSE {[h |-> a.h, ret |-> 0]}
    IN UNION {IF s.ret = 0
              THEN {[h |-> x, rolled |-> TRUE] :
                       x \in PutHandleRollBack(s.h, a.cls, flow_mark)}
              ELSE {[h |-> s.h, rolled |-> FALSE]} : s \in saved}

(* after put_add_patterns returned p *)
PutHandleActions(p, match, flow_mark) ==
    IF p.ret = 0
    THEN {[h |-> x, rolled |-> TRUE] :
             x \in PutHandleRollBack(p.h, p.cls, flow_mark)}
    ELSE UNION {IF a.ret = 0
                THEN {[h |-> x, rolled |-> TRUE] :
                         x \in PutHandleRollBack(a.h, a.cls, flow_mark)}
                ELSE PutHandleSave(a, match, flow_mark)
                : a \in netdev_dpdk_offload_put_add_actions(p.h, p.cls)}

(* netdev_dpdk_offload_put_handle: the outcomes [h, rolled], rolled: the   *)
(* call left through roll_back                                             *)
netdev_dpdk_offload_put_handle(h, match, actions, flow_mark) ==
    LET c == netdev_dpdk_offload_classify(ZeroClsInfo, match, actions)
    IN IF c.ret = 0 THEN {[h |-> h, rolled |-> FALSE]}
       ELSE UNION {PutHandleActions(p, match, flow_mark) :
                      p \in netdev_dpdk_offload_put_add_patterns(h, c.cls)}

(* netdev_dpdk_offload_del_handle: the outcomes h *)
netdev_dpdk_offload_del_handle(h, mark) ==
    UNION {LET data == g.h[g.map][g.i]
               s1 == IF data.flow.outer_id # 0
                     THEN OnOuterIdUnref(g.h, data.flow.outer_id) ELSE {g.h}
               s2 == UNION {IF data.flow.hw_id # 0
                            THEN OnPutHwId(
                                     x,
                                     netdev_dpdk_get_sw_id_from_hw_id(
                                         data.flow.hw_id),
                                     data.flow.is_port)
                            ELSE {x} : x \in s1}
           IN UNION {OnDelMissCtx(x, mark) : x \in s2}
           : g \in OnGetFlowMissCtx(h, mark)}

(***************************************************************************)
(* The handle calls as actions (SpecHandle): references are taken on       *)
(* tunnel tuples and table ids, a flow's miss context is saved, and        *)
(* netdev_dpdk_offload_put_handle / netdev_dpdk_offload_del_handle run.    *)
(***************************************************************************)
MaxHandleCalls == 4     \* calls made in one behaviour of SpecHandle

(* the logical ids the table-id nodes are allocated for: datapath port 0   *)
(* and recirculation / port id 1                                           *)
HandleIds == {0, 1}

(* the stores take the values of outcome h *)
HandleApply(h) ==
    /\ Len(h.ctx) <= MaxCtx
    /\ tun_to_outer_id_map' = h.tun
    /\ outer_id_to_tun_map' = h.rev
    /\ outer_pool' = h.opool
    /\ recirc_id_to_tbl_id_map' = h.recirc
    /\ port_id_to_tbl_id_map' = h.port
    /\ hw_pool' = h.hpool
    /\ mark_to_ct_ctx' = h.ctx
    /\ mpi_mark_to_ct_ctx' = h.mpi
    /\ miss_rcu' = h.rcu

HandleKept ==
    /\ ncalls < MaxHandleCalls
    /\ ncalls' = ncalls + 1
    /\ UNCHANGED <<patvars, port_map, mark_to_rte_port, dpdk_phy_ports_amount,
                   ufid_to_portid_map, rte_flows, last, ident, pre_rd,
                   miss_rd>>

(* netdev_dpdk_tun_id_get_ref *)
HandleTunGetRef ==
    /\ \E t \in TunTuples : \E r \in OnTunGetRef(HandleState, t) :
          /\ HandleApply(r.h)
          /\ clast' = TunCall("tun_get_ref", t, r.ret)
    /\ HandleKept

(* netdev_dpdk_hw_id_init, then netdev_dpdk_alloc_hw_id *)
HandleHwAlloc ==
    /\ Len(recirc_id_to_tbl_id_map) + Len(port_id_to_tbl_id_map) < MaxHwNodes
    /\ \E id \in HandleIds, is_port \in BOOLEAN :
          \E r \in OnAllocHwId([HandleState EXCEPT
                                   !.hpool = netdev_dpdk_hw_id_init],
                               id, is_port) :
             /\ HandleApply(r.h)
             /\ clast' = HwCall("alloc_hw_id", id, r.ret)
    /\ HandleKept

(* netdev_dpdk_save_flow_miss_ctx for a flow without conntrack that holds  *)
(* a reference on outer-id n.outer_id and on the table id of node i        *)
HandleSaveFlow ==
    /\ \E mark \in Marks, n \in tun_to_outer_id_map, is_port \in BOOLEAN :
          \E i \in DOMAIN HwMap(is_port) :
             \E r \in OnSaveFlowMissCtx(HandleState, mark,
                                        HwMap(is_port)[i].hw_id, is_port,
                                        n.outer_id, 1, FALSE) :
                /\ ~HwMap(is_port)[i].freed
                /\ HandleApply(r.h)
                /\ clast' = HwCall("save_flow_miss_ctx", mark, r.ret)
    /\ HandleKept

(* the matches and action lists handed to netdev_dpdk_offload_put_handle:  *)
(* a match validation accepts, one it refuses; an output, and conntrack    *)
(* followed by recirculation                                               *)
HandleMatches == {UdpMatch(1), MetadataMatch(1)}

HandleActionLists == {<<NlOutput(1)>>, <<NlCt(0), NlRecircTo(1)>>}

(* netdev_dpdk_offload_put_handle *)
OffloadPutHandle ==
    /\ \E match \in HandleMatches, actions \in HandleActionLists,
          flow_mark \in Marks :
          \E r \in netdev_dpdk_offload_put_handle(HandleState, match, actions,
                                                  flow_mark) :
             /\ HandleApply(r.h)
             /\ clast' = HwCall(IF r.rolled
                                THEN "offload_put_handle: roll_back"
                                ELSE "offload_put_handle: return",
                                flow_mark, 0)
    /\ HandleKept

(* netdev_dpdk_offload_del_handle *)
OffloadDelHandle ==
    /\ \E mark \in Marks :
          \E h \in netdev_dpdk_offload_del_handle(HandleState, mark) :
             /\ HandleApply(h)
             /\ clast' = HwCall("offload_del_handle", mark, 0)
    /\ HandleKept

NextHandle ==
    \/ HandleTunGetRef
    \/ HandleHwAlloc
    \/ HandleSaveFlow
    \/ OffloadPutHandle
    \/ OffloadDelHandle

SpecHandle == InitPool /\ [][NextHandle]_vars

(* the reference counts of the tunnel tuples, and of the table-id nodes    *)
(* not handed to free, in the stores h                                     *)
C24_TunRefs(tun) == {<<TunKey(n), n.ref_count>> : n \in tun}

C24_Live(n) == ~n.freed

C24_RollBackStep ==
    clast'.op = "offload_put_handle: roll_back"
        => /\ C24_TunRefs(tun_to_outer_id_map')
                  = C24_TunRefs(tun_to_outer_id_map)
           /\ SelectSeq(recirc_id_to_tbl_id_map', C24_Live)
                  = SelectSeq(recirc_id_to_tbl_id_map, C24_Live)
           /\ SelectSeq(port_id_to_tbl_id_map', C24_Live)
                  = SelectSeq(port_id_to_tbl_id_map, C24_Live)

(* C24: whenever netdev_dpdk_offload_put_handle leaves through roll_back,  *)
(* every outer-id reference count and every table-id reference count       *)
(* equals its value before the call: what the attempt acquired is released *)
(* once, and nothing else is released.                                     *)
C24_RollBackRestores == [][C24_RollBackStep]_vars

(* the contexts of mark that the store links: plain-flow contexts holding  *)
(* an outer-id and a table id                                              *)
C25_FlowCtx(mark) ==
    {mark_to_ct_ctx[i] : i \in MissMatches(mark_to_ct_ctx, mark)}
        \cup {mpi_mark_to_ct_ctx[i] : i \in MissMatches(mpi_mark_to_ct_ctx,
                                                        mark)}

C25_DelStep ==
    \A data \in C25_FlowCtx(clast'.id) :
        (/\ clast'.op = "offload_del_handle"
         /\ data.type = MARK_PREPROCESS_FLOW
         /\ netdev_dpdk_tun_data_find(data.flow.outer_id) # {})
            => /\ \A n \in tun_to_outer_id_map :
                      n.outer_id = data.flow.outer_id
                          => C24_TunRefs(tun_to_outer_id_map') =
                                 (C24_TunRefs(tun_to_outer_id_map)
                                      \ {<<TunKey(n), n.ref_count>>})
                                 \cup (IF n.ref_count = 1 THEN {}
                                       ELSE {<<TunKey(n), n.ref_count - 1>>})
               /\ \A i \in DOMAIN HwMap(data.flow.is_port) :
                      (/\ HwMap(data.flow.is_port)[i].hw_id = data.flow.hw_id
                       /\ ~HwMap(data.flow.is_port)[i].freed)
                          => HwMap(data.flow.is_port)'[i].ref_cnt =
                                 HwMap(data.flow.is_port)[i].ref_cnt - 1
               /\ MissMatches(mark_to_ct_ctx', clast'.id) = {}
               /\ MissMatches(mpi_mark_to_ct_ctx', clast'.id) = {}

(* C25: netdev_dpdk_offload_del_handle(mark) on a live plain-flow context  *)
(* holding outer-id O and table id H takes exactly one reference off the   *)
(* tunnel tuple mapped to O and one off the table-id entry whose hardware  *)
(* id is H, in the map its port flag selects, and removes the context, so  *)
(* that a lookup of the mark finds nothing.                                *)
C25_DelHandleReleases == [][C25_DelStep]_vars

(***************************************************************************)
(* netdev_add_rte_flow_offload: the generic install path (a static         *)
(* function that no entry point calls yet), taken on its own.  vport: the  *)
(* caller's flag; rej: the netdevs on which the driver refuses the flow.   *)
(***************************************************************************)
get_output_table_id(match, action_bitmap, vport) ==
    IF "CT" \in action_bitmap /\ match.flow.recirc_id = 0
    THEN IF vport THEN VXLAN_TABLE_ID ELSE ROOT_TABLE_ID
    ELSE UNKNOWN_TABLE_ID

(* the actions a translated OUTPUT leaves behind: count, port id, END *)
AddRteOutput(actions, id) ==
    add_flow_action(
        add_flow_action(add_flow_action(actions, "COUNT", 0), "PORT_ID", id),
        "END", 0)

(* the NL_ATTR_FOR_EACH loop from action i on; acc = [ret, actions,        *)
(* action_bitmap, attr, out], out: the loop left through `goto out`        *)
RECURSIVE AddRteActions(_, _, _, _, _, _)
AddRteActions(pm, match, vport, nl_actions, i, acc) ==
    IF i > Len(nl_actions) THEN acc
    ELSE LET a == nl_actions[i]
             acts == IF match.flow.recirc_id = 0 /\ vport
                     THEN add_flow_action(acc.actions, "VXLAN_DECAP", 0)
                     ELSE acc.actions
             left(ret) == [acc EXCEPT !.actions = acts, !.ret = ret,
                                      !.out = TRUE]
             o == get_output_port(pm, a)
             c == netdev_rte_add_clone_flow_action(pm, a.nested, 1, acts)
             table_id == get_output_table_id(match, acc.action_bitmap, vport)
         IN
         IF a.type = "TUNNEL_POP"
         THEN IF acc.action_bitmap # {} \/ match.flow.recirc_id # 0 \/ vport
              THEN left(acc.ret)
              ELSE AddRteActions(pm, match, vport, nl_actions, i + 1,
                       [acc EXCEPT
                           !.actions = add_flow_action(
                               add_flow_action(
                                   add_flow_action(acts, "JUMP", VXLAN_TABLE_ID),
                                   "COUNT", 0),
                               "END", 0),
                           !.attr = FlowAttr(ROOT_TABLE_ID, 0, 1),
                           !.action_bitmap = @ \cup {"TUNNEL_POP"}])
         ELSE IF a.type = "OUTPUT"
         THEN IF table_id = UNKNOWN_TABLE_ID THEN left(acc.ret)
              ELSE IF o.ret # 0 THEN left(o.ret)
              ELSE AddRteActions(pm, match, vport, nl_actions, i + 1,
                       [acc EXCEPT
                           !.actions = AddRteOutput(acts, o.id),
                           !.ret = 0,
                           !.attr = FlowAttr(table_id, 0, 1),
                           !.action_bitmap = @ \cup {"OUTPUT"}])
         ELSE IF a.type = "CLONE"
         THEN IF match.flow.recirc_id # 0 \/ vport THEN left(acc.ret)
              ELSE IF c.result # 0
              THEN [acc EXCEPT !.actions = c.actions, !.ret = c.result,
                               !.out = TRUE]
              ELSE AddRteActions(pm, match, vport, nl_actions, i + 1,
                       [acc EXCEPT
                           !.actions = c.actions,
                           !.action_bitmap =
                               @ \cup ({"TUNNEL_PUSH", "OUTPUT"} \cap
                                          {a.nested[k].type :
                                              k \in DOMAIN a.nested})])
         ELSE IF a.type = "CT"
         THEN IF a.zone # 0 THEN left(EOPNOTSUPP)
              ELSE AddRteActions(pm, match, vport, nl_actions, i + 1,
                       [acc EXCEPT !.actions = acts,
                                   !.action_bitmap = @ \cup {"CT"}])
         ELSE IF a.type = "RECIRC"
         THEN IF "CT" \notin acc.action_bitmap THEN left(EOPNOTSUPP)
              ELSE AddRteActions(pm, match, vport, nl_actions, i + 1,
                       [acc EXCEPT !.actions = acts,
                                   !.action_bitmap = @ \cup {"RECIRC"}])
         ELSE left(EOPNOTSUPP)

(* netdev_dpdk_set_one_flow: one create through `netdev` for every uplink  *)
(* port of port_map, from dp_port p on; a = [hw_offload, d],               *)
(* x = [items, actions, attr, rej, ufid]                                   *)
SetOneFlowCreated(a, netdev, c) ==
    IF c.flow # 0
    THEN ufid_hw_offload_add_rte_flow(a.hw_offload, c.d, c.flow, netdev)
    ELSE [hw_offload |-> a.hw_offload, d |-> c.d]

RECURSIVE netdev_dpdk_set_one_flow(_, _, _, _, _)
netdev_dpdk_set_one_flow(a, pm, p, x, netdev) ==
    IF p > MaxPorts THEN a
    ELSE netdev_dpdk_set_one_flow(
             IF /\ p \in DOMAIN pm
                /\ pm[p].rte_port_type = "DPDK"
                /\ netdev_dpdk_is_uplink_port(pm[p].netdev)
             THEN SetOneFlowCreated(
                      a, netdev,
                      netdev_dpdk_rte_flow_create(
                          a.d, netdev, x.attr, x.items, x.actions,
                          netdev.id \notin x.rej, "generic", x.ufid))
             ELSE a,
             pm, p + 1, x, netdev)

(* netdev_dpdk_set_flows, the vport case from dp_port p on *)
RECURSIVE SetFlowsVport(_, _, _, _)
SetFlowsVport(a, pm, p, x) ==
    IF p > MaxPorts THEN a
    ELSE SetFlowsVport(
             IF /\ p \in DOMAIN pm
                /\ pm[p].rte_port_type = "DPDK"
                /\ netdev_dpdk_is_uplink_port(pm[p].netdev)
             THEN netdev_dpdk_set_one_flow(a, pm, 1, x, pm[p].netdev)
             ELSE a,
             pm, p + 1, x)

netdev_dpdk_set_flows(a, pm, x, rte_port, vport) ==
    IF vport THEN SetFlowsVport(a, pm, 1, x)
    ELSE netdev_dpdk_set_one_flow(a, pm, 1, x, rte_port.netdev)

(* the new identity hw and the ufid -> port entry are in place *)
AddRteRegistered(rte_port, ufid, vport, rej, hw, pm, map, d, pat, act) ==
    IF pat.ret # 0
    THEN [ret |-> pat.ret, pm |-> pm, map |-> map, d |-> d]
    ELSE IF act.out
    THEN [ret |-> act.ret, pm |-> pm, map |-> map, d |-> d]
    ELSE VxlanInstalled(
             rte_port.dp_port, ufid, act.ret, pm, map,
             netdev_dpdk_set_flows(
                 [hw_offload |-> hw, d |-> d], pm,
                 [items |-> pat.items, actions |-> act.actions,
                  attr |-> act.attr, rej |-> rej, ufid |-> ufid],
                 rte_port, vport))

(* an old identity, if any, is freed: pm0 and d are what that left *)
AddRteFreed(rte_port, match, nl_actions, ufid, vport, ratio, rej, pm0, d) ==
    IF ratio = 0
    THEN [ret |-> -EINVAL, pm |-> pm0, map |-> ufid_to_portid_map, d |-> d]
    ELSE AddRteRegistered(
             rte_port, ufid, vport, rej,
             netdev_rte_port_ufid_hw_offload_alloc(ratio, ufid),
             [pm0 EXCEPT ![rte_port.dp_port].ufid_to_rte =
                 MapPut(@, ufid,
                        netdev_rte_port_ufid_hw_offload_alloc(ratio, ufid))],
             ufid_to_portid_add(ufid_to_portid_map, ufid, rte_port.dp_port),
             d,
             IF vport THEN VportPatterns(match) ELSE PhysPatterns(match),
             AddRteActions(pm0, match, vport, nl_actions, 1,
                           [ret |-> 0, actions |-> <<>>,
                            action_bitmap |-> {},
                            attr |-> FlowAttr(0, 0, 0), out |-> FALSE]))

netdev_add_rte_flow_offload(match, nl_actions, ufid, vport, ratio, rej, surv) ==
    IF Len(nl_actions) = 0
    THEN [ret |-> 0, pm |-> port_map, map |-> ufid_to_portid_map,
          d |-> Driver0]
    ELSE IF netdev_rte_offloads_validate_flow(match, vport) # 0
    THEN [ret |-> -EOPNOTSUPP, pm |-> port_map, map |-> ufid_to_portid_map,
          d |-> Driver0]
    ELSE IF match.flow.in_port \notin DOMAIN port_map
    THEN [ret |-> -EINVAL, pm |-> port_map, map |-> ufid_to_portid_map,
          d |-> Driver0]
    ELSE IF ufid \in DOMAIN port_map[match.flow.in_port].ufid_to_rte
    THEN AddRteFreed(
             port_map[match.flow.in_port], match, nl_actions, ufid, vport,
             ratio, rej,
             [port_map EXCEPT ![match.flow.in_port].ufid_to_rte =
                 MapDel(@, ufid)],
             netdev_rte_port_ufid_hw_offload_free(
                 Driver0, port_map[match.flow.in_port].ufid_to_rte[ufid],
                 surv))
    ELSE AddRteFreed(port_map[match.flow.in_port], match, nl_actions, ufid,
                     vport, ratio, rej, port_map, Driver0)

(* the requests offered to the generic path on in_port *)
RecircMatch(in_port) == [UdpMatch(in_port) EXCEPT !.flow.recirc_id = 1]

AddRteMatches(in_port, vport) ==
    IF vport
    THEN {TunnelMatch(in_port),
          [TunnelMatch(in_port) EXCEPT !.flow.dl_type = 34525]}
    ELSE {UdpMatch(in_port), RecircMatch(in_port), MetadataMatch(in_port)}

AddRteActionLists ==
    {<<>>, <<NlSet>>, <<NlCt(0)>>, <<NlCt(1)>>, <<NlRecirc>>,
     <<NlCt(0), NlRecirc>>}
        \cup UNION {{<<NlTunnelPop(p)>>, <<NlClone(p)>>, <<NlOutput(p)>>,
                     <<NlCt(0), NlOutput(p)>>,
                     <<NlCt(0), NlOutput(p), NlOutput(p)>>} :
                        p \in {1, NoSuchPort}}

(* the standard match under every action list and driver answer, the      *)
(* other matches and a zero odp_to_rte_flow_ratio under one                *)
AddRteStdMatch(in_port, vport) ==
    IF vport THEN TunnelMatch(in_port) ELSE UdpMatch(in_port)

AddRteRequests(in_port, vport) ==
    {[match |-> AddRteStdMatch(in_port, vport), nl_actions |-> a,
      ratio |-> 2, rej |-> r] :
        a \in AddRteActionLists, r \in {{}, Ports}}
    \cup {[match |-> m, nl_actions |-> <<NlCt(0), NlOutput(1)>>,
           ratio |-> 2, rej |-> {}] : m \in AddRteMatches(in_port, vport)}
    \cup {[match |-> AddRteStdMatch(in_port, vport),
           nl_actions |-> <<NlCt(0), NlOutput(1)>>, ratio |-> 0,
           rej |-> {}]}

MaxAddRteCalls == 3     \* calls of the generic path in one run

AddRteFlowOffload ==
    /\ ncalls < MaxAddRteCalls
    /\ ncalls' = ncalls + 1
    /\ \E ufid \in Ufids, in_port \in Ports \cup {NoSuchPort},
          vport \in BOOLEAN :
        /\ in_port \in DOMAIN port_map
               => vport = (port_map[in_port].rte_port_type = "VXLAN")
        /\ Cardinality(rte_flows) + 3 <= MaxHandles
        /\ \E q \in AddRteRequests(in_port, vport) :
             \E surv \in SUBSET StaleCandidates(in_port, ufid) :
               Returned(
                   [Call("add_rte_flow_offload", ufid, in_port) EXCEPT
                       !.fresh = Fresh(ufid),
                       !.old = RecordedFlows(port_map, ufid),
                       !.kind = IF vport THEN "vport" ELSE "port"],
                   netdev_add_rte_flow_offload(q.match, q.nl_actions, ufid,
                                               vport, q.ratio, q.rej, surv))

NextAddRte == PortAdd \/ AddRteFlowOffload

SpecAddRte == InitPool /\ [][NextAddRte]_vars

(* the list holds END exactly once, as its last element *)
EndOnceLast(actions) ==
    /\ Len(actions) > 0
    /\ actions[Len(actions)] = "END"
    /\ \A k \in 1..(Len(actions) - 1) : actions[k] # "END"

(* C27: every action list that a call hands to the driver's flow create,   *)
(* on whichever install path, holds the END action exactly once and as    *)
(* its last element.                                                       *)
C27_EndMarkerLast ==
    \A j \in DOMAIN last.log :
        last.log[j].call = "create" => EndOnceLast(last.log[j].actions)

(* C28: when the action list of a flow_put on a physical port cannot be    *)
(* translated in full, the list handed to the driver for the mark+RSS      *)
(* flow (group 0, priority 0, no transfer) is MARK, RSS, END and nothing   *)
(* else: none of the actions translated before the failing one is in it.   *)
C28_FallbackBundleOnly ==
    last.op = "flow_put" =>
        \A j \in DOMAIN last.log :
            /\ last.log[j].call = "create"
            /\ last.log[j].attr = FlowAttr(0, 0, 0)
            => last.log[j].actions = <<"MARK", "RSS", "END">>

(* C29: the translation of a match puts an Ethernet item first, one with   *)
(* neither spec nor mask when no Ethernet address is masked, and the item  *)
(* list holds a VLAN item exactly when the mask of the VLAN tag is         *)
(* non-zero, whatever the tag's value, zero included.                      *)
C29_EthFirstVlanIffMasked ==
    cres.fn = "add_flow_patterns" =>
        /\ Len(cres.r.items) >= 1
        /\ cres.r.items[1].type = "ETH"
        /\ ~EthMasked(cmatch) => cres.r.items[1].st = "NULL"
        /\ (\E k \in DOMAIN cres.r.items : cres.r.items[k].type = "VLAN")
               <=> cmatch.masks.vlan_tci # 0

(***************************************************************************)
(* add_vport_vxlan_flow_patterns on its own: the outer-header translation  *)
(* applied to tunnel matches of either ethertype.                          *)
(***************************************************************************)
VxlanPatMatches ==
    {[flow  |-> [ZeroFlow EXCEPT
                    !.dl_type = x.dl_type,
                    !.nw_proto = x.nw_proto,
                    !.tunnel = [ZeroTunnel EXCEPT !.ip_src = x.ip_src,
                                                  !.ip_dst = 167772162,
                                                  !.tun_id = x.tun_id,
                                                  !.ip_ttl = x.ip_ttl,
                                                  !.tp_dst = 4789]],
      masks |-> [ZeroFlow EXCEPT
                    !.dl_type = OVS_BE16_MAX,
                    !.nw_proto = UINT8_MOD - 1,
                    !.tp_dst = x.tp_dst_mask,
                    !.tunnel = [ZeroTunnel EXCEPT !.ip_src = x.ip_mask,
                                                  !.ip_dst = x.ip_mask,
                                                  !.tun_id = x.tun_id_mask]]] :
        x \in [dl_type : {ETH_TYPE_IP, 34525, 2054},    \* IPv4, IPv6, ARP
               nw_proto : {IPPROTO_UDP, IPPROTO_TCP, 47},
               ip_src : {0, 167772161},
               ip_ttl : {0, 64},
               ip_mask : {0, 16777215},
               tun_id : {0, 100, 16777215},
               tun_id_mask : {0, 16777215},
               tp_dst_mask : {0, OVS_BE16_MAX}]}

PatVxlan ==
    /\ cres.fn = "none"
    /\ cres' = [fn |-> "add_vport_vxlan_flow_patterns",
                r |-> add_vport_vxlan_flow_patterns(<<>>, "outer", cmatch)]
    /\ UNCHANGED <<cmatch, tunvars, hwvars, missvars, clast, lifevars, auxvars>>

InitVxlanPat ==
    /\ cmatch \in VxlanPatMatches
    /\ cres = [fn |-> "none"]
    /\ InitCtx

SpecVxlanPat == InitVxlanPat /\ [][PatVxlan]_vars

(* what the driver is shown of the outer items *)
C30_Outer ==
    DriverItems(cres.r.items,
                [outer |-> [spec |-> cres.r.spec, mask |-> cres.r.mask]])

(* C30: the translation of a tunnel match's outer header emits, when the   *)
(* ethertype is IPv4, the items IPV4, UDP, VXLAN in this order and no      *)
(* other, the IPV4 item asking for protocol UDP under a full protocol      *)
(* mask, and returns success; for any other ethertype it fails and emits   *)
(* no item.                                                                *)
C30_VxlanOuterItems ==
    cres.fn = "add_vport_vxlan_flow_patterns" =>
        IF cmatch.flow.dl_type = ETH_TYPE_IP
        THEN /\ cres.r.ret = 0
             /\ Types(cres.r.items) = <<"IPV4", "UDP", "VXLAN">>
             /\ C30_Outer[1].spec.next_proto_id = IPPROTO_UDP
             /\ C30_Outer[1].mask.next_proto_id = UINT8_MOD - 1
        ELSE /\ cres.r.ret # 0
             /\ cres.r.items = <<>>

C30_Witness ==
    /\ cres.fn = "add_vport_vxlan_flow_patterns"
    /\ cmatch.flow.dl_type = ETH_TYPE_IP
    /\ cmatch.flow.nw_proto = IPPROTO_TCP
    /\ cmatch.flow.tunnel.tun_id = 100
    /\ cres.r.ret = 0
    /\ Len(cres.r.items) = 3

(* C31: every spec and mask value of the items the outer-header            *)
(* translation emits comes from the tunnel fields of the match; the UDP    *)
(* item's ports are the tunnel's transport ports under the tunnel's port   *)
(* masks, and nothing of the inner packet's transport ports or masks       *)
(* shows in an emitted item.                                               *)
C31_OuterFieldsOnly ==
    (cres.fn = "add_vport_vxlan_flow_patterns" /\ cres.r.ret = 0) =>
        /\ C30_Outer[1].spec.src_addr = cmatch.flow.tunnel.ip_src
        /\ C30_Outer[1].spec.dst_addr = cmatch.flow.tunnel.ip_dst
        /\ C30_Outer[1].mask.src_addr = cmatch.masks.tunnel.ip_src
        /\ C30_Outer[1].mask.dst_addr = cmatch.masks.tunnel.ip_dst
        /\ C30_Outer[2].spec.src_port = cmatch.flow.tunnel.tp_src
        /\ C30_Outer[2].spec.dst_port = cmatch.flow.tunnel.tp_dst
        /\ C30_Outer[2].mask.src_port = cmatch.masks.tunnel.tp_src
        /\ C30_Outer[2].mask.dst_port = cmatch.masks.tunnel.tp_dst
        /\ C30_Outer[3].spec.vni[3] = cmatch.flow.tunnel.tun_id % UINT8_MOD
        /\ C30_Outer[3].mask.vni[3] = cmatch.masks.tunnel.tun_id % UINT8_MOD

(* C32: every (handle, port) pair recorded in a flow identity names the    *)
(* port on which the driver's flow create returned the handle, the pairs   *)
(* of tunnel fan-out flows included, so that each destroy goes to the port *)
(* the flow was created on.                                                *)
C32_OwnerPortRecorded ==
    \A p \in DOMAIN port_map :
        \A u \in DOMAIN port_map[p].ufid_to_rte :
            \A i \in 1..port_map[p].ufid_to_rte[u].curr_idx :
                \A f \in rte_flows :
                    f.flow = port_map[p].ufid_to_rte[u].rte_flow_data[i].flow
                    => f.netdev =
                           port_map[p].ufid_to_rte[u].rte_flow_data[i].netdev

(* the handles some flow identity or some default-flow slot holds *)
C33_Recorded ==
    UNION {UNION {{port_map[p].ufid_to_rte[u].rte_flow_data[i].flow :
                      i \in 1..port_map[p].ufid_to_rte[u].curr_idx} :
                  u \in DOMAIN port_map[p].ufid_to_rte}
           \cup {port_map[p].default_rte_flow[t] :
                    t \in DOMAIN port_map[p].default_rte_flow} :
           p \in DOMAIN port_map}

(* C33: when a flow_put returns, with success or failure, every handle the *)
(* driver's flow create returned during the call is recorded in a flow     *)
(* identity or in a default-flow slot, or has been passed to the driver's  *)
(* flow destroy since; the jump flow installed ahead of a clone flow is    *)
(* no exception.                                                           *)
C33_NoOrphanHandles ==
    last.op \in {"flow_put", "vport_flow_put"} =>
        \A j \in DOMAIN last.log :
            (last.log[j].call = "create" /\ last.log[j].flow # 0) =>
                \/ last.log[j].flow \in C33_Recorded
                \/ \E k \in DOMAIN last.log :
                       /\ k > j
                       /\ last.log[k].call = "destroy"
                       /\ last.log[k].flow = last.log[j].flow

(* the entries of port_map whose type is DPDK *)
C34_PhysPorts == {p \in DOMAIN port_map : port_map[p].rte_port_type = "DPDK"}

(* C34: in every state that port_add and port_del can lead to, a repeated  *)
(* port_add and one that changes a port's kind included,                   *)
(* dpdk_phy_ports_amount is the number of port_map entries of type DPDK,   *)
(* and the identity a tunnel flow_put has just allocated has that number   *)
(* as its capacity.                                                        *)
C34_CounterMatchesRegistry ==
    /\ dpdk_phy_ports_amount = Cardinality(C34_PhysPorts)
    /\ (/\ last.op = "vport_flow_put"
        /\ last.port \in DOMAIN port_map
        /\ last.ufid \in DOMAIN port_map[last.port].ufid_to_rte)
           => port_map[last.port].ufid_to_rte[last.ufid].max_flows
                  = Cardinality(C34_PhysPorts)

(* the registered ports that mark_to_rte_port holds under `mark` *)
C35_Owners(mark) ==
    {p \in PreChain(mark) :
        p \in DOMAIN port_map /\ port_map[p].exception_mark = mark}

(* C35: in every reachable state mark_to_rte_port leads from a mark to at  *)
(* most one port, and every registered port of type VXLAN has exactly one  *)
(* node in it, so that netdev_rte_offload_preprocess hands a packet with   *)
(* that mark to the one tunnel port that owns the mark, also with two or   *)
(* more tunnel ports registered.                                           *)
C35_MarkIndexUnique ==
    /\ \A mark \in PreMarks : Cardinality(C35_Owners(mark)) <= 1
    /\ \A p \in DOMAIN port_map :
           port_map[p].rte_port_type = "VXLAN"
           => Cardinality({i \in DOMAIN mark_to_rte_port :
                              mark_to_rte_port[i] = p}) = 1

(* C36: every flow the driver installs with a JUMP action jumps to a       *)
(* group strictly above the group the flow itself is installed in,         *)
(* whatever the kind of the registered port a tunnel pop names.            *)
C36_JumpsGoUp ==
    \A j \in DOMAIN last.log :
        (last.log[j].call = "create" /\ last.log[j].flow # 0) =>
            \A g \in last.log[j].jump : g > last.log[j].attr.group

(***************************************************************************)
(* Outer-id width in the miss contexts.  struct mark_to_miss_ctx_data      *)
(* keeps ct.outer_id and flow.outer_id as uint16_t;                        *)
(* netdev_dpdk_save_ct_miss_ctx receives the outer id through a uint8_t    *)
(* parameter, netdev_dpdk_save_flow_miss_ctx through a uint32_t one.       *)
(***************************************************************************)
C37_CtNodes(mark) ==
    {mark_to_ct_ctx[i] : i \in MissMatches(mark_to_ct_ctx, mark)}

(* C37: after netdev_dpdk_save_ct_miss_ctx returns for an outer id in      *)
(* 1..65535, the conntrack miss context of the mark holds exactly the      *)
(* outer id that was supplied (nothing is cut down to 8 or 16 bits).       *)
C37_OuterIdWidthKept ==
    (/\ clast.op = "save_ct_miss_ctx"
     /\ clast.p.outer_id \in 1 .. 65535)
        => \E n \in C37_CtNodes(clast.id) :
              /\ n.type = MARK_PREPROCESS_CT
              /\ n.ct.outer_id = clast.p.outer_id

(***************************************************************************)
(* Conntrack-state validation.  netdev_rte_offloads_flow_put is called     *)
(* with the UDP match of the ingress port whose ct_state mask is drawn     *)
(* from CtStateMasks: every combination of CS_NEW (1), CS_ESTABLISHED (2)  *)
(* and CS_RELATED (4).  clast keeps the mask of the call.                  *)
(***************************************************************************)
MaxCtStateCalls == 3    \* lifecycle calls in one run of SpecCtState

CtStateMasks == 0 .. 7

CtStateMatch(in_port, mask) ==
    [UdpMatch(in_port) EXCEPT !.masks.ct_state = mask,
                              !.flow.ct_state = BitAnd(mask, CS_ESTABLISHED)]

CtStatePortAdd ==
    /\ ncalls < MaxCtStateCalls
    /\ PortAdd

CtStateFlowPut ==
    /\ ncalls < MaxCtStateCalls
    /\ ncalls' = ncalls + 1
    /\ \E ufid \in Ufids, in_port \in Ports \cup {NoSuchPort},
          mask \in CtStateMasks, out \in Ports :
        /\ in_port \in DOMAIN port_map
               => port_map[in_port].netdev.type = "dpdk"
        /\ Cardinality(rte_flows) + 3 <= MaxHandles
        /\ \E dec \in PhysDecisions(<<NlOutput(out)>>) :
             \E surv \in SUBSET StaleCandidates(in_port, ufid) :
               LET match == CtStateMatch(in_port, mask)
                   r == netdev_rte_offloads_flow_put(
                            Netdev(in_port, "dpdk"), match,
                            <<NlOutput(out)>>, ufid, FlowInfo(ufid), dec,
                            surv)
               IN /\ port_map' = r.pm
                  /\ ufid_to_portid_map' = r.map
                  /\ rte_flows' = r.d.flows
                  /\ last' = [Call("flow_put", ufid, in_port) EXCEPT
                                 !.fresh = Fresh(ufid),
                                 !.valid =
                                     netdev_rte_offloads_validate_flow(
                                         match, FALSE) >= 0,
                                 !.old = RecordedFlows(port_map, ufid),
                                 !.denied = Denied(match),
                                 !.ret = r.ret, !.log = r.d.log]
                  /\ clast' = HwCall("flow_put_ct_state", mask, r.ret)
                  /\ UNCHANGED <<mark_to_rte_port, dpdk_phy_ports_amount>>
                  /\ UNCHANGED <<patvars, tunvars, hwvars, missvars,
                                 auxvars>>

NextCtState == CtStatePortAdd \/ CtStateFlowPut

SpecCtState == InitPool /\ [][NextCtState]_vars

(* C38: a flow_put whose ct_state mask has any bit other than established  *)
(* (alone or together with established) fails and installs nothing: no     *)
(* rte_flow_create is issued and the driver holds no flow it did not hold  *)
(* before the call.                                                        *)
C38_CtStateOnlyEstablished ==
    (/\ clast.op = "flow_put_ct_state"
     /\ clast.id \notin {0, CS_ESTABLISHED})
        => /\ last.ret # 0
           /\ \A i \in DOMAIN last.log : last.log[i].call # "create"
           /\ FlowIds(rte_flows) \subseteq last.pre.live

(***************************************************************************)
(* Destroy discipline.  The driver calls of the last entry point are in    *)
(* last.log, in order; last.pre.live are the handles the driver held when  *)
(* it was entered.                                                         *)
(***************************************************************************)
(* positions of last.log that pass `flow` to rte_flow_create's result /    *)
(* to rte_flow_destroy                                                     *)
C39_Creates(flow) ==
    {j \in DOMAIN last.log : /\ last.log[j].call = "create"
                             /\ last.log[j].flow = flow}

C39_Destroys(flow) ==
    {j \in DOMAIN last.log : /\ last.log[j].call = "destroy"
                             /\ last.log[j].flow = flow}

(* the handle destroyed at position i was returned by rte_flow_create and  *)
(* has not been handed to rte_flow_destroy since                           *)
C39_DestroyOfLive(i) ==
    LET flow == last.log[i].flow
        before == {j \in C39_Destroys(flow) : j < i}
    IN /\ flow # 0
       /\ \/ \E c \in C39_Creates(flow) :
                c < i /\ \A j \in before : j < c
          \/ flow \in last.pre.live /\ before = {}

(* a handle that was destroyed and not handed out again is recorded        *)
(* nowhere when the call returns                                           *)
C39_DestroyedForgotten(i) ==
    LET flow == last.log[i].flow
    IN (\A c \in C39_Creates(flow) : c < i) => flow \notin C33_Recorded

(* C39: through any sequence of port_add, port_del, flow_put (fresh or     *)
(* modifying) and flow_del, whatever the driver accepts or refuses, every  *)
(* handle passed to rte_flow_destroy was returned by rte_flow_create and   *)
(* is passed only once: it is live when destroyed, and no record of it is  *)
(* left behind from which it could be destroyed again.                     *)
C39_NoDoubleDestroy ==
    \A i \in DOMAIN last.log :
        last.log[i].call = "destroy"
            => C39_DestroyOfLive(i) /\ C39_DestroyedForgotten(i)

(* a modifying flow_put destroyed the old handle and the driver handed the *)
(* same handle out again for the new flow                                  *)
C39_Witness ==
    /\ last.op = "flow_put"
    /\ ~last.fresh
    /\ last.ret = 0
    /\ \E i \in DOMAIN last.log :
          /\ last.log[i].call = "destroy"
          /\ \E c \in C39_Creates(last.log[i].flow) : c > i

(***************************************************************************)
(* Teardown by mark.  netdev_dpdk_offload_ct_del: the context is fetched   *)
(* with netdev_dpdk_get_flow_miss_ctx and netdev_dpdk_del_miss_ctx is      *)
(* called for the mark; it returns 0.                                      *)
(***************************************************************************)
netdev_dpdk_offload_ct_del(h, mark) ==
    UNION {OnDelMissCtx(g.h, mark) : g \in OnGetFlowMissCtx(h, mark)}

OffloadCtDel ==
    /\ \E mark \in Marks :
          \E h \in netdev_dpdk_offload_ct_del(HandleState, mark) :
             /\ HandleApply(h)
             /\ clast' = HwCall("offload_ct_del", mark, 0)
    /\ HandleKept

NextTeardown ==
    \/ HandleTunGetRef
    \/ HandleHwAlloc
    \/ HandleSaveFlow
    \/ OffloadPutHandle
    \/ OffloadDelHandle
    \/ OffloadCtDel

SpecTeardown == InitPool /\ [][NextTeardown]_vars

(* no node of either map carries the mark *)
C40_Unknown(mark) ==
    /\ MissMatches(mark_to_ct_ctx, mark) = {}
    /\ MissMatches(mpi_mark_to_ct_ctx, mark) = {}

C40_Step ==
    (/\ clast'.op \in {"offload_del_handle", "offload_ct_del"}
     /\ C40_Unknown(clast'.id))
        => /\ mark_to_ct_ctx' = mark_to_ct_ctx
           /\ mpi_mark_to_ct_ctx' = mpi_mark_to_ct_ctx
           /\ tun_to_outer_id_map' = tun_to_outer_id_map
           /\ outer_id_to_tun_map' = outer_id_to_tun_map
           /\ recirc_id_to_tbl_id_map' = recirc_id_to_tbl_id_map
           /\ port_id_to_tbl_id_map' = port_id_to_tbl_id_map

(* C40: netdev_dpdk_offload_del_handle(mark) and                           *)
(* netdev_dpdk_offload_ct_del(mark), called for a mark that has no live    *)
(* miss context, leave the miss-context store as it was (no entry created  *)
(* or removed) and leave every outer-id and table-id reference count       *)
(* unchanged.                                                              *)
C40_UnknownMarkTeardownNoOp == [][C40_Step]_vars

====
